---- MODULE Spec2Model ----
(***************************************************************************)
(* bluesky/plans.py: the plan mutation engine plan_mutator, driven by a    *)
(* caller that sends responses, throws faults or closes it, over a root    *)
(* plan of the shape finalize(main, final_plan) and replacement / tail     *)
(* generators returned by the rewrite function msg_proc.                   *)
(*                                                                         *)
(* Values: None is 0, the response the caller supplies for the k-th        *)
(* yielded message is k, the return value of generator g is RetVal(g).     *)
(* Message instances are numbered in the order they are constructed.       *)
(***************************************************************************)
EXTENDS Integers, Sequences, FiniteSets, TLC

\* bounds of the model
MaxGens == 4        \* generator instances, the root included
MaxYield == 2       \* messages one plain generator (or the root's main plan) yields
MaxCleanup == 1     \* messages the root's final_plan yields
MaxMsgs == 5        \* message instances constructed in one run
MaxChain == 3       \* plans given to bschain
MaxPlan == 3        \* messages of a plan over devices
NumDevices == 3
MaxFlyers == 2      \* flyers given to fly_during
MaxSubs == 2        \* (name, func) pairs of subs
MaxTokens == 2      \* tokens a caller answers 'subscribe' with
MaxEnclosed == 2    \* plans appended inside one event_context
NumMovable == 2     \* devices a plan given to relative_set moves
MaxRel == 1         \* relative positions 0..MaxRel
MaxRelPlan == 2     \* messages of a plan given to relative_set
MaxArgs == 16       \* positional arguments given to a scan
MaxSteps == 2       \* passes of the loop of adaptive_scan
MaxStop == 2        \* stop positions 0..MaxStop of adaptive_scan
MaxPos == 2          \* positions 1..MaxPos of a step of an ND scan
MaxNdSteps == 2      \* steps of the cycler of an ND scan
MaxQuads == 3        \* motors given to an outer product scan of simple_scans
MaxFinish == 2       \* finish positions 1..MaxFinish
MaxIntervals == 2    \* intervals given to a scan of simple_scans
MaxDevList == 3     \* devices given to trigger_and_read

None == 0
Unanswered == -1
NoFault == "none"

VARIABLES
    pc,                 \* position of plan_mutator: loop, yield, returned, raised, closed
    plan_stack,         \* deque of generator ids, top last
    result_stack,       \* deque of pending responses
    msgs_seen,          \* set of message instances already given to msg_proc
    tail_cache,         \* id(new_gen) -> tail generator id, or None
    tail_result_cache,  \* id(tail gen) -> saved response
    gens,               \* every generator instance constructed so far
    out,                \* messages yielded to the caller, with the response to each
    nextMsg,            \* next fresh message instance
    msgs,               \* per message instance: its address id(msg), how often it
                        \* was given to msg_proc, its command and its target
    lastMsg,            \* the engine's local msg: the message last produced, or 0
    frame,              \* the locals of the generator function the caller drives
    engRet,             \* value plan_mutator returned
    engErr,             \* fault plan_mutator raised to its caller
    swallowed,          \* messages returned by plan.throw and dropped
    illegalMsg,         \* message for which msg_proc returned (None, tail), or 0
    userThrew,          \* the caller threw a fault in
    faultBy,            \* generator whose resumption raised a fault, or 0
    spliced             \* a replacement was pushed at least once

vars == <<pc, plan_stack, result_stack, msgs_seen, tail_cache, tail_result_cache,
          gens, out, nextMsg, msgs, lastMsg, frame, engRet, engErr, swallowed, illegalMsg, userThrew,
          faultBy, spliced>>

Last(s) == s[Len(s)]
Front(s) == SubSeq(s, 1, Len(s) - 1)

Root == 1
RetVal(g) == 100 + g

\* dict helpers
DictSet(d, k, v) == [x \in (DOMAIN d) \cup {k} |-> IF x = k THEN v ELSE d[x]]
DictDel(d, k) == [x \in (DOMAIN d) \ {k} |-> d[x]]
EmptyDict == [x \in {} |-> None]

\* the state as one record, and its assignment to the primed variables
Cur ==
    [pc |-> pc, plan_stack |-> plan_stack, result_stack |-> result_stack,
     msgs_seen |-> msgs_seen, tail_cache |-> tail_cache,
     tail_result_cache |-> tail_result_cache, gens |-> gens, out |-> out,
     nextMsg |-> nextMsg, msgs |-> msgs, lastMsg |-> lastMsg,
     frame |-> frame, engRet |-> engRet, engErr |-> engErr,
     swallowed |-> swallowed, illegalMsg |-> illegalMsg,
     userThrew |-> userThrew, faultBy |-> faultBy, spliced |-> spliced]

Become(s) ==
    /\ pc' = s.pc
    /\ plan_stack' = s.plan_stack
    /\ result_stack' = s.result_stack
    /\ msgs_seen' = s.msgs_seen
    /\ tail_cache' = s.tail_cache
    /\ tail_result_cache' = s.tail_result_cache
    /\ gens' = s.gens
    /\ out' = s.out
    /\ nextMsg' = s.nextMsg
    /\ msgs' = s.msgs
    /\ lastMsg' = s.lastMsg
    /\ frame' = s.frame
    /\ engRet' = s.engRet
    /\ engErr' = s.engErr
    /\ swallowed' = s.swallowed
    /\ illegalMsg' = s.illegalMsg
    /\ userThrew' = s.userThrew
    /\ faultBy' = s.faultBy
    /\ spliced' = s.spliced

(***************************************************************************)
(* Generators.                                                             *)
(***************************************************************************)
NewGen(id, kind, owner, ownerPos, forMsg, pair) ==
    [id |-> id, kind |-> kind, st |-> "fresh", yielded |-> <<>>, got |-> <<>>,
     owner |-> owner, ownerPos |-> ownerPos, forMsg |-> forMsg, pair |-> pair,
     thrown |-> <<>>, phase |-> "main", pending |-> NoFault, fcount |-> 0,
     body |-> "any", arg |-> None]

\* what resuming a generator gives: a message, StopIteration or a fault
YieldsMsg(G, m, cmd, obj) ==
    [t |-> "yield", msg |-> m, val |-> None, fault |-> NoFault, g |-> G,
     cmd |-> cmd, obj |-> obj, marg |-> None, eff |-> <<>>, inner |-> <<>>]
\* a message with a positional argument
YieldsArg(G, m, cmd, obj, a) == [YieldsMsg(G, m, cmd, obj) EXCEPT !.marg = a]
Yields(G, m) == YieldsMsg(G, m, "msg", None)
Stops(G, v) ==
    [t |-> "stop", msg |-> 0, val |-> v, fault |-> NoFault, g |-> G,
     cmd |-> "msg", obj |-> None, marg |-> None, eff |-> <<>>,
     inner |-> <<>>]
Raises(G, ex) ==
    [t |-> "raise", msg |-> 0, val |-> None, fault |-> ex, g |-> G,
     cmd |-> "msg", obj |-> None, marg |-> None, eff |-> <<>>,
     inner |-> <<>>]

\* the messages a generator can yield again: the one it was made for and the
\* one it yielded last
Again(G) ==
    (IF G.forMsg # 0 THEN {G.forMsg} ELSE {})
      \cup (IF G.yielded # <<>> THEN {G.yielded[Len(G.yielded)]} ELSE {})

\* a generator returned by msg_proc: yields fresh messages or the message it
\* was made for, then returns or raises
PlainSend(G, v, nm) ==
    IF G.st \in {"done", "raised", "closed"} THEN {Stops(G, None)}
    ELSE IF G.st = "fresh" /\ v # None THEN {Raises(G, "TypeError")}
    ELSE LET G1 == [G EXCEPT !.got = Append(@, v), !.st = "susp"]
             fin == [G1 EXCEPT !.st = "done"]
             bad == [G1 EXCEPT !.st = "raised"]
             ms == IF Len(G.yielded) < MaxYield
                     THEN (IF nm <= MaxMsgs THEN {nm} ELSE {}) \cup Again(G)
                     ELSE {}
         IN  {Yields([G1 EXCEPT !.yielded = Append(@, m)], m) : m \in ms}
               \cup {Stops(fin, RetVal(G.id)), Raises(bad, "PlanFault")}

PlainThrow(G, ex, nm) ==
    {Raises([G EXCEPT !.thrown = Append(@, ex), !.st = "raised"], ex)}

\* finalize(plan, final_plan): try: ret = yield from plan
\*                             finally: yield from final_plan
\*                             return ret
FinalizeSend(G, v, nm) ==
    IF G.st \in {"done", "raised", "closed"} THEN {Stops(G, None)}
    ELSE IF G.st = "fresh" /\ v # None THEN {Raises(G, "TypeError")}
    ELSE LET G1 == [G EXCEPT !.got = Append(@, v), !.st = "susp"]
             fin == [G1 EXCEPT !.st = "done"]
             bad == [G1 EXCEPT !.st = "raised"]
             inFinal(ex) == [G1 EXCEPT !.phase = "final", !.pending = ex,
                                       !.fcount = 1, !.yielded = Append(@, nm)]
         IN  IF G.phase = "main"
               THEN (IF Len(G.yielded) < MaxYield
                       THEN {Yields([G1 EXCEPT !.yielded = Append(@, m)], m) :
                               m \in (IF nm <= MaxMsgs THEN {nm} ELSE {})
                                        \cup Again(G)}
                       ELSE {})
                    \cup {Stops(fin, RetVal(G.id)), Raises(bad, "PlanFault")}
                    \cup (IF MaxCleanup > 0 /\ nm <= MaxMsgs
                            THEN {Yields(inFinal(NoFault), nm),
                                  Yields(inFinal("PlanFault"), nm)}
                            ELSE {})
               ELSE (IF G.fcount < MaxCleanup /\ nm <= MaxMsgs
                       THEN {Yields([G1 EXCEPT !.yielded = Append(@, nm),
                                               !.fcount = @ + 1], nm)}
                       ELSE {})
                    \cup {IF G.pending = NoFault
                            THEN Stops(fin, RetVal(G.id))
                            ELSE Raises(bad, G.pending)}

FinalizeThrow(G, ex, nm) ==
    LET G1 == [G EXCEPT !.thrown = Append(@, ex)]
        bad == [G1 EXCEPT !.st = "raised"]
    IN  IF G.st = "susp" /\ G.phase = "main"
          THEN {Raises(bad, ex)}
               \cup (IF MaxCleanup > 0 /\ nm <= MaxMsgs
                       THEN {Yields([G1 EXCEPT !.phase = "final", !.pending = ex,
                                               !.fcount = 1,
                                               !.yielded = Append(@, nm)], nm)}
                       ELSE {})
          ELSE {Raises(bad, ex)}

\* devices: device 2 is a component of device 1, every other device is its
\* own root
Devices == 1..NumDevices
RootOf(d) == IF d = 2 THEN 1 ELSE d
ChildrenOf(r) == IF r = 1 THEN <<2>> ELSE <<>>

\* the messages of a plan over devices: Msg(command, obj)
PlanShapes ==
    {[cmd |-> c, obj |-> d] : c \in {"read", "configure"}, d \in Devices}
      \cup {[cmd |-> "sleep", obj |-> None]}

\* what the caller answers to Msg('stage', r): nothing, the list [r], or the
\* list of r and its components; other messages are answered as elsewhere
ListCode(r, all) == 1000 + 10 * r + (IF all THEN 1 ELSE 0)
Listed(v) ==
    IF v % 10 = 1 THEN <<(v - 1000) \div 10>> \o ChildrenOf((v - 1000) \div 10)
    ELSE <<(v - 1000) \div 10>>

\* the messages of a plan that opens and closes runs
RunShapes ==
    {[cmd |-> c, obj |-> None] : c \in {"open_run", "close_run", "checkpoint"}}

ShapesOf(body) == IF body = "runplan" THEN RunShapes ELSE PlanShapes

\* a plan given to a wrapper: up to MaxPlan new messages, then it returns or
\* raises
DevPlanSend(G, v, nm) ==
    LET G1 == [G EXCEPT !.got = Append(@, v), !.st = "susp"]
    IN  (IF Len(G.yielded) < MaxPlan
           THEN {YieldsMsg([G1 EXCEPT !.yielded = Append(@, nm)], nm,
                           sh.cmd, sh.obj) : sh \in ShapesOf(G.body)}
           ELSE {})
          \cup {Stops([G1 EXCEPT !.st = "done"], RetVal(G.id)),
                Raises([G1 EXCEPT !.st = "raised"], "PlanFault")}

\* bschain(single_gen(Msg('stage', obj)), single_gen(msg)), obj being G.arg
\* and msg G.forMsg
StageThenMsgSend(G, v, nm) ==
    LET G1 == [G EXCEPT !.got = Append(@, v), !.st = "susp"]
    IN  CASE Len(G.yielded) = 0 ->
               {YieldsMsg([G1 EXCEPT !.yielded = Append(@, nm)], nm,
                          "stage", G.arg)}
          [] Len(G.yielded) = 1 ->
               {Yields([G1 EXCEPT !.yielded = Append(@, G.forMsg)], G.forMsg)}
          [] OTHER -> {Stops([G1 EXCEPT !.st = "done"], RetVal(G.id))}

\* ret = [root] in place of no answer
StagedList(v, root) == IF v = None THEN <<root>> ELSE Listed(v)

\* new_gen() of lazily_stage, root being G.arg and msg G.forMsg; eff is what
\* devices_staged is extended by
NewGenSend(G, v, nm) ==
    LET G1 == [G EXCEPT !.got = Append(@, v), !.st = "susp"]
    IN  CASE Len(G.yielded) = 0 ->
               {YieldsMsg([G1 EXCEPT !.yielded = Append(@, nm)], nm,
                          "stage", G.arg)}
          [] Len(G.yielded) = 1 ->
               {[Yields([G1 EXCEPT !.yielded = Append(@, G.forMsg)], G.forMsg)
                   EXCEPT !.eff = StagedList(v, G.arg)]}
          [] OTHER -> {Stops([G1 EXCEPT !.st = "done"], None)}

\* unstage() of stage_wrapper: for obj in seen_objs: yield Msg('unstage', obj)
\* G.arg is what of seen_objs the loop has not reached; a set has no order
UnstageSend(G, v, nm) ==
    LET G1 == [G EXCEPT !.got = Append(@, v), !.st = "susp"]
    IN  IF G.arg = {}
          THEN {Stops([G1 EXCEPT !.st = "done"], None)}
          ELSE {YieldsMsg([G1 EXCEPT !.yielded = Append(@, nm),
                                     !.arg = @ \ {d}], nm, "unstage", d)
                  : d \in G.arg}

\* subscribe() of subscription_wrapper over the G.arg (name, func) pairs of
\* subs, in the order of the two for loops
SubscribeSend(G, v, nm) ==
    LET G1 == [G EXCEPT !.got = Append(@, v), !.st = "susp"]
        i == Len(G.yielded)
    IN  IF i < G.arg
          THEN {YieldsArg([G1 EXCEPT !.yielded = Append(@, nm)], nm,
                          "subscribe", None, i + 1)}
          ELSE {Stops([G1 EXCEPT !.st = "done"], None)}

\* unsubscribe() of subscription_wrapper: for token in tokens, G.arg being
\* what is left of the set; a set is iterated in no particular order
UnsubscribeSend(G, v, nm) ==
    LET G1 == [G EXCEPT !.got = Append(@, v), !.st = "susp"]
    IN  IF G.arg = {}
          THEN {Stops([G1 EXCEPT !.st = "done"], None)}
          ELSE {YieldsArg([G1 EXCEPT !.yielded = Append(@, nm),
                                     !.arg = @ \ {t}], nm, "unsubscribe",
                          None, t)
                  : t \in G.arg}

\* a single_gen that yields nothing
SingleGenNever(G, v, nm) ==
    {Stops([G EXCEPT !.got = Append(@, v), !.st = "done"], None)}

\* single_gen(msg), msg being G.forMsg
SingleGenSend(G, v, nm) ==
    LET G1 == [G EXCEPT !.got = Append(@, v), !.st = "susp"]
    IN  IF Len(G.yielded) = 0
          THEN {Yields([G1 EXCEPT !.yielded = Append(@, G.forMsg)], G.forMsg)}
          ELSE {Stops([G1 EXCEPT !.st = "done"], None)}

\* new_gen() of fly_during: yield from <list of messages>, the list being
\* G.arg, and then, for body "list_then_msg", yield msg.  yield from
\* delegates to the list's iterator, which can be advanced but has no send():
\* a response other than None to a message of the list raises AttributeError.
FromListSend(G, v, nm) ==
    LET G1 == [G EXCEPT !.got = Append(@, v), !.st = "susp"]
        i == Len(G.yielded)
    IN  IF i >= 1 /\ i <= Len(G.arg) /\ v # None
          THEN {Raises([G1 EXCEPT !.st = "raised"], "AttributeError")}
        ELSE IF i < Len(G.arg)
          THEN {Yields([G1 EXCEPT !.yielded = Append(@, G.arg[i + 1])],
                       G.arg[i + 1])}
        ELSE IF G.body = "list_then_msg" /\ i = Len(G.arg)
          THEN {Yields([G1 EXCEPT !.yielded = Append(@, G.forMsg)], G.forMsg)}
        ELSE {Stops([G1 EXCEPT !.st = "done"], None)}

\* a generator whose code is known
BodySend(G, v, nm) ==
    IF G.st \in {"done", "raised", "closed"} THEN {Stops(G, None)}
    ELSE IF G.st = "fresh" /\ v # None THEN {Raises(G, "TypeError")}
    ELSE CASE G.body \in {"plan", "runplan"} -> DevPlanSend(G, v, nm)
           [] G.body = "single_gen" -> SingleGenSend(G, v, nm)
           [] G.body \in {"from_list", "list_then_msg"} -> FromListSend(G, v, nm)
           [] G.body = "stage_then_msg" -> StageThenMsgSend(G, v, nm)
           [] G.body = "new_gen" -> NewGenSend(G, v, nm)
           [] G.body = "subscribe" -> SubscribeSend(G, v, nm)
           [] G.body = "unsubscribe" -> UnsubscribeSend(G, v, nm)
           [] OTHER -> UnstageSend(G, v, nm)

GenSend(G, v, nm) ==
    IF G.kind = "root" THEN FinalizeSend(G, v, nm)
    ELSE IF G.body = "any" THEN PlainSend(G, v, nm)
    ELSE BodySend(G, v, nm)

GenThrow(G, ex, nm) ==
    IF G.kind = "root" THEN FinalizeThrow(G, ex, nm) ELSE PlainThrow(G, ex, nm)

\* generator.close(): a suspended or unstarted generator is finished; the
\* messages a finally block would yield are not delivered
GenClose(G) ==
    IF G.st \in {"fresh", "susp"} THEN [G EXCEPT !.st = "closed"] ELSE G

Bump(s, m) == IF m = s.nextMsg THEN s.nextMsg + 1 ELSE s.nextMsg


(***************************************************************************)
(* plan_mutator.                                                           *)
(***************************************************************************)
\* resuming the bottom frame instead of the top one
ResumeTargetBottom(ps) == ps[1]

\* plan_stack[-1].send(ret): the frame that is resumed
ResumeTarget(ps) == Last(ps)

\* handing on the exhausted generator's own return value
ExhaustedRetOwn(ret, val) == val

\* except StopIteration: ret keeps the value last sent to the exhausted
\* generator; the value carried by StopIteration is not read
ExhaustedRet(ret, val) == ret

\* forgetting the response saved for a tail frame
TailOverrideForgotten(ret, g, trc) == ret

\* if id(exhausted_gen) in tail_result_cache: ret = tail_result_cache.pop(...)
TailOverride(ret, g, trc) == IF g \in DOMAIN trc THEN trc[g] ELSE ret

\* throwing into the frame that is active
ThrowTargetTop(s) == Last(s.plan_stack)

\* except Exception as ex: plan.throw(ex) -- plan is the root
ThrowTarget(s) == s.frame.plan

NeedsRewriteAlways(a, seen) == TRUE

\* if id(msg) not in msgs_seen
NeedsRewrite(a, seen) == a \notin seen

\* dropping the caller's response
YieldResultDropped(inner_ret) == None

\* inner_ret = yield msg; result_stack.append(inner_ret)
YieldResult(inner_ret) == inner_ret

\* return plan.close(): close() of a generator returns None
CloseValue(G) == None

\* the record of a message instance constructed at address a
NewMsg(a, o) ==
    [addr |-> a, procd |-> 0, cmd |-> o.cmd, obj |-> o.obj, arg |-> o.marg]

\* the addresses of instances that are certainly alive: the engine's local
\* msg, what the wrapper around the engine holds, and the message a
\* generator with known code will yield again
HeldAddrs(s) ==
    {s.msgs[j].addr : j \in {i \in 1..Len(s.msgs) :
        \/ i = s.lastMsg
        \/ i \in s.frame.held
        \/ \E g \in 1..Len(s.gens) : /\ s.gens[g].body # "any"
                                      /\ s.gens[g].st \in {"fresh", "susp"}
                                      /\ s.gens[g].forMsg = i}}

\* id(msg) of a new instance: an address never used, or the address of an
\* earlier instance that nothing references any more.  Any instance not
\* certainly alive is alive only as long as a plan or the caller keeps it.
AddrChoices(s) ==
    {s.nextMsg} \cup
    ({s.msgs[k].addr : k \in 1..Len(s.msgs)} \ HeldAddrs(s))

\* an instance whose address a later instance took over is gone
Gone(s, m) == \E j \in (m + 1)..Len(s.msgs) : s.msgs[j].addr = s.msgs[m].addr

RECURSIVE Raise(_, _), Iterate(_), RunEngine(_)

\* A plan_mutator generator that is itself a plan of another engine (kind
\* "engine") keeps its locals in arg.  Its code runs on the state s with
\* those locals in place of the resuming engine's.
EngineView(s, G) ==
    [s EXCEPT !.pc = G.arg.pc,
              !.plan_stack = G.arg.plan_stack,
              !.result_stack = G.arg.result_stack,
              !.msgs_seen = G.arg.msgs_seen,
              !.tail_cache = G.arg.tail_cache,
              !.tail_result_cache = G.arg.tail_result_cache,
              !.out = G.arg.out,
              !.lastMsg = G.arg.lastMsg,
              !.engRet = G.arg.engRet,
              !.engErr = G.arg.engErr,
              !.frame = [G.arg.frame EXCEPT
                           !.held = @ \cup s.frame.held \cup {s.lastMsg}]]

\* the locals of the engine G after it ran to state w
EnginePart(w, G) ==
    [pc |-> w.pc, plan_stack |-> w.plan_stack, result_stack |-> w.result_stack,
     msgs_seen |-> w.msgs_seen, tail_cache |-> w.tail_cache,
     tail_result_cache |-> w.tail_result_cache, out |-> w.out,
     lastMsg |-> w.lastMsg, engRet |-> w.engRet, engErr |-> w.engErr,
     frame |-> [w.frame EXCEPT !.held = G.arg.frame.held]]

\* what the resuming engine gets when engine G stopped running in state w
EngineOutcome(G, w) ==
    LET G1 == [G EXCEPT !.arg = EnginePart(w, G)]
        m == w.out[Len(w.out)].msg
    IN  CASE w.pc = "yield" ->
               [Yields([G1 EXCEPT !.yielded = Append(@, m), !.st = "susp"], m)
                  EXCEPT !.inner = <<w>>]
          [] w.pc = "returned" ->
               [Stops([G1 EXCEPT !.st = "done"], w.engRet)
                  EXCEPT !.inner = <<w>>]
          [] OTHER ->
               [Raises([G1 EXCEPT !.st = "raised"], w.engErr)
                  EXCEPT !.inner = <<w>>]

\* engine G is resumed with v
EngineSend(s, G, v) ==
    IF G.st \in {"done", "raised", "closed"} THEN {Stops(G, None)}
    ELSE IF G.st = "fresh" /\ v # None THEN {Raises(G, "TypeError")}
    ELSE LET view == EngineView(s, G)
             start == IF G.st = "fresh" THEN view
                      ELSE [view EXCEPT
                              !.result_stack = Append(@, YieldResult(v)),
                              !.out[Len(view.out)].resp = v,
                              !.pc = "loop"]
         IN  {EngineOutcome([G EXCEPT !.got = Append(@, v)], w) :
                w \in RunEngine(start)}

\* a fault is thrown into engine G at its yield
EngineThrow(s, G, ex) ==
    IF G.st = "susp"
      THEN {EngineOutcome([G EXCEPT !.thrown = Append(@, ex)], w) :
              w \in UNION {RunEngine(r) : r \in Raise(EngineView(s, G), ex)}}
      ELSE {Raises([G EXCEPT !.thrown = Append(@, ex), !.st = "raised"], ex)}

\* plan_stack[-1].send(ret) and plan.throw(ex), for any kind of generator
Resumed(s, g, v) ==
    IF s.gens[g].kind = "engine" THEN EngineSend(s, s.gens[g], v)
    ELSE GenSend(s.gens[g], v, s.nextMsg)

ThrownInto(s, g, ex) ==
    IF s.gens[g].kind = "engine" THEN EngineThrow(s, s.gens[g], ex)
    ELSE GenThrow(s.gens[g], ex, s.nextMsg)

\* devices_staged.extend(ret), done by new_gen() when it is resumed
Extended(f, eff) ==
    IF eff = <<>> THEN f ELSE [f EXCEPT !.devices_staged = @ \o eff]

\* the state of the engine after generator g did o: what g changed, with
\* the engine's own locals as they were
Absorbed(s, g, o) ==
    IF o.inner = <<>>
      THEN [s EXCEPT !.gens[g] = o.g, !.frame = Extended(@, o.eff)]
      ELSE [o.inner[1] EXCEPT
              !.pc = s.pc,
              !.plan_stack = s.plan_stack,
              !.result_stack = s.result_stack,
              !.msgs_seen = s.msgs_seen,
              !.tail_cache = s.tail_cache,
              !.tail_result_cache = s.tail_result_cache,
              !.out = s.out,
              !.lastMsg = s.lastMsg,
              !.engRet = s.engRet,
              !.engErr = s.engErr,
              !.frame = s.frame,
              !.gens[g] = o.g]

\* except Exception as ex: plan.throw(ex).  A message the root yields in
\* reaction is the value of the throw() expression and is dropped; the
\* while loop then goes on.
Raise(s, ex) ==
    LET tgt == ThrowTarget(s)
    IN  { LET s1 == Absorbed(s, tgt, o)
          IN  IF o.t = "yield"
                THEN [s1 EXCEPT !.swallowed = Append(@, o.msg),
                                !.nextMsg = Bump(s1, o.msg),
                                !.msgs = IF o.msg = s1.nextMsg
                                           THEN Append(@, NewMsg(o.msg, o))
                                           ELSE @,
                                !.pc = "loop"]
                ELSE [s1 EXCEPT !.pc = "raised", !.engErr = o.fault]
          : o \in ThrownInto(s, tgt, ex) }

\* inner_ret = yield msg
YieldOut(s, top, m) ==
    {[s EXCEPT !.out = Append(@, [msg |-> m, src |-> top,
                                  idx |-> Len(s.gens[top].yielded),
                                  resp |-> Unanswered]),
               !.pc = "yield"]}

\* recording the tail under the frame that issued the message
SpliceKeyedByOwner(s, top, m, withTail) ==
    LET n == Len(s.gens) + 1
        pos == Len(s.gens[top].yielded)
        p == NewGen(n, "repl", top, pos, m, 0)
        t == NewGen(n + 1, "tail", top, pos, m, n)
    IN  {[s EXCEPT !.gens = IF withTail THEN @ \o <<p, t>> ELSE Append(@, p),
                   !.plan_stack = Append(@, n),
                   !.result_stack = Append(@, None),
                   !.tail_cache = DictSet(@, top, IF withTail THEN n + 1 ELSE None),
                   !.spliced = TRUE]}

\* if new_gen is not None: push it, prime it with None, remember its tail
Splice(s, top, m, withTail) ==
    LET n == Len(s.gens) + 1
        pos == Len(s.gens[top].yielded)
        p == NewGen(n, "repl", top, pos, m, 0)
        t == NewGen(n + 1, "tail", top, pos, m, n)
    IN  {[s EXCEPT !.gens = IF withTail THEN @ \o <<p, t>> ELSE Append(@, p),
                   !.plan_stack = Append(@, n),
                   !.result_stack = Append(@, None),
                   !.tail_cache = DictSet(@, n, IF withTail THEN n + 1 ELSE None),
                   !.spliced = TRUE]}

\* msg_proc returned (new_gen, None), new_gen being a generator with known
\* code
SpliceBody(s, top, m, body, arg) ==
    {[r EXCEPT !.gens[Len(s.gens) + 1].body = body,
               !.gens[Len(s.gens) + 1].arg = arg] : r \in Splice(s, top, m, FALSE)}

\* inner(msg) of stage_wrapper.  For a message whose target's root is in
\* seen_objs the function ends without a return statement: unpacking its
\* None into new_gen, tail_gen raises TypeError.
StageInner(s, top, m) ==
    LET obj == s.msgs[m].obj
    IN  IF obj = None THEN YieldOut(s, top, m)
        ELSE IF RootOf(obj) \notin s.frame.seen_objs
          THEN SpliceBody([s EXCEPT !.frame.seen_objs = @ \cup {RootOf(obj)}],
                          top, m, "stage_then_msg", RootOf(obj))
          ELSE Raise(s, "TypeError")

COMMANDS == {"read", "set", "trigger", "kickoff"}

\* x in devices_staged
InList(x, list) == \E i \in 1..Len(list) : list[i] = x

\* inner(msg) of lazily_stage
LazyInner(s, top, m) ==
    IF s.msgs[m].cmd \in COMMANDS /\ ~InList(s.msgs[m].obj, s.frame.devices_staged)
      THEN SpliceBody(s, top, m, "new_gen", RootOf(s.msgs[m].obj))
      ELSE YieldOut(s, top, m)

\* insert_after_open(msg) of fly_during
AfterOpen(s, top, m) ==
    IF s.msgs[m].cmd = "open_run"
      THEN {[r EXCEPT !.gens[Len(s.gens) + 1].body = "single_gen",
                      !.gens[Len(s.gens) + 2].body = "from_list",
                      !.gens[Len(s.gens) + 2].arg = s.frame.kickoff_msgs]
              : r \in Splice(s, top, m, TRUE)}
      ELSE YieldOut(s, top, m)

\* insert_before_close(msg) of fly_during
BeforeClose(s, top, m) ==
    IF s.msgs[m].cmd = "close_run"
      THEN SpliceBody(s, top, m, "list_then_msg", s.frame.collect_msgs)
      ELSE YieldOut(s, top, m)

\* the message the resumed frame produced: seen check, msg_proc, and the four
\* shapes of its result
OnMsg(s, top, m) ==
    IF NeedsRewrite(s.msgs[m].addr, s.msgs_seen)
      THEN LET s1 == [s EXCEPT !.msgs_seen = @ \cup {s.msgs[m].addr},
                               !.msgs[m].procd = @ + 1]
           IN  CASE s.frame.fn = "stage_wrapper" -> StageInner(s1, top, m)
                 [] s.frame.fn = "insert_after_open" -> AfterOpen(s1, top, m)
                 [] s.frame.fn = "insert_before_close" -> BeforeClose(s1, top, m)
                 [] s.frame.fn = "lazily_stage" -> LazyInner(s1, top, m)
                 [] s.frame.fn = "declines_below_root" /\ top # s.frame.plan ->
                      YieldOut(s1, top, m)
                 [] OTHER ->
                      YieldOut(s1, top, m)
                        \cup Raise([s1 EXCEPT !.illegalMsg = m], "RuntimeError")
                        \cup (IF Len(s.gens) + 1 <= MaxGens
                                THEN Splice(s1, top, m, FALSE) ELSE {})
                        \cup (IF Len(s.gens) + 2 <= MaxGens
                                THEN Splice(s1, top, m, TRUE) ELSE {})
      ELSE YieldOut(s, top, m)

\* reading the binding and leaving it in the dict
PopBindingKept(tc, g) == tc

\* tail_cache.pop(id(exhausted_gen))
PopBinding(tc, g) == DictDel(tc, g)

\* leaving the exhausted generator on the stack
DiscardedNot(ps) == ps

\* exhausted_gen = plan_stack.pop(): what is left on plan_stack
Discarded(ps) == Front(ps)

\* priming the tail on top of the value saved for its owner
SavedResultKept(rs) == rs

\* saved_result = result_stack.pop(): what is left on result_stack
SavedResultPopped(rs) == Front(rs)

\* except StopIteration
OnStop(s, ret, val) ==
    LET exhausted == Last(s.plan_stack)
        ps1 == Discarded(s.plan_stack)
        ret1 == TailOverride(ExhaustedRet(ret, val), exhausted, s.tail_result_cache)
        trc1 == DictDel(s.tail_result_cache, exhausted)
        tail == IF exhausted \in DOMAIN s.tail_cache
                  THEN s.tail_cache[exhausted] ELSE None
        tc1 == PopBinding(s.tail_cache, exhausted)
        s1 == IF tail # None
                THEN [s EXCEPT !.plan_stack = Append(ps1, tail),
                               !.result_stack =
                                   Append(SavedResultPopped(Append(@, ret1)), None),
                               !.tail_cache = tc1,
                               !.tail_result_cache = DictSet(trc1, tail, ret1)]
                ELSE [s EXCEPT !.plan_stack = ps1,
                               !.result_stack = Append(@, ret1),
                               !.tail_cache = tc1,
                               !.tail_result_cache = trc1]
    IN  IF s1.plan_stack # <<>>
          THEN {[s1 EXCEPT !.pc = "loop"]}
          ELSE {[s1 EXCEPT !.pc = "returned",
                           !.engRet = CloseValue(s1.gens[s.frame.plan]),
                           !.gens[s.frame.plan] = GenClose(@)]}

\* msg = plan_stack[-1].send(ret) gave a message: a new instance gets its
\* address, an old one must still exist
Produced(s, top, o) ==
    IF o.msg = s.nextMsg
      THEN UNION { OnMsg([s EXCEPT !.msgs = Append(@, NewMsg(a, o)),
                                   !.nextMsg = @ + 1,
                                   !.lastMsg = o.msg], top, o.msg)
                   : a \in AddrChoices(s) }
      ELSE IF Gone(s, o.msg) THEN {}
      ELSE OnMsg([s EXCEPT !.lastMsg = o.msg], top, o.msg)

\* one iteration of the while loop, from result_stack.pop() to the next
\* yield, continue, return or raise
Iterate(s) ==
    IF s.result_stack = <<>>
      THEN Raise(s, "IndexError")
      ELSE LET ret == Last(s.result_stack)
               s0 == [s EXCEPT !.result_stack = Front(@)]
               top == ResumeTarget(s.plan_stack)
           IN  UNION { LET s1 == Absorbed(s0, top, o)
                       IN  CASE o.t = "yield" -> Produced(s1, top, o)
                             [] o.t = "stop" -> OnStop(s1, ret, o.val)
                             [] OTHER ->
                                  Raise([s1 EXCEPT !.faultBy =
                                            IF @ = 0 THEN top ELSE @], o.fault)
                       : o \in Resumed(s, top, ret) }

\* the while loop up to the next yield, return or raise
RunEngine(s) ==
    IF s.pc = "loop" THEN UNION {RunEngine(r) : r \in Iterate(s)} ELSE {s}

\* the caller's response to the message just yielded
Responses == {Len(out)}

Init ==
    /\ pc = "loop"
    /\ plan_stack = <<Root>>
    /\ result_stack = <<None>>
    /\ msgs_seen = {}
    /\ tail_cache = EmptyDict
    /\ tail_result_cache = EmptyDict
    /\ gens = <<NewGen(Root, "root", 0, 0, 0, 0)>>
    /\ out = <<>>
    /\ nextMsg = 1
    /\ msgs = <<>>
    /\ lastMsg = 0
    /\ frame = [fn |-> "plan_mutator", plan |-> Root, held |-> {}]
    /\ engRet = Unanswered
    /\ engErr = NoFault
    /\ swallowed = <<>>
    /\ illegalMsg = 0
    /\ userThrew = FALSE
    /\ faultBy = 0
    /\ spliced = FALSE

\* the loop runs
Resume ==
    /\ pc = "loop"
    /\ \E r \in Iterate(Cur) : Become(r)

\* the caller resumes the suspended engine with a response
Send ==
    /\ pc = "yield"
    /\ \E v \in Responses :
         Become([Cur EXCEPT !.result_stack = Append(@, YieldResult(v)),
                            !.out[Len(out)].resp = v,
                            !.pc = "loop"])

\* the caller throws a fault in at the yield
Throw ==
    /\ pc = "yield"
    /\ \E r \in Raise([Cur EXCEPT !.userThrew = TRUE], "UserFault") : Become(r)

\* the caller closes the engine at the yield: GeneratorExit is no Exception,
\* so no handler runs.  Generators nobody else references are finalized by
\* the runtime; those the caller still holds stay suspended.
Close ==
    /\ pc = "yield"
    /\ \E held \in BOOLEAN :
         Become([Cur EXCEPT !.pc = "closed",
                            !.gens = IF held THEN @
                                     ELSE [i \in DOMAIN @ |-> GenClose(@[i])]])

Next == Resume \/ Send \/ Throw \/ Close

Spec == Init /\ [][Next]_vars

\* plan_mutator(plan, msg_proc) with a msg_proc that returns (None, None)
\* for every message a replacement or a tail produces, and anything for a
\* message of the root
InitAnswered ==
    /\ pc = "loop"
    /\ plan_stack = <<Root>>
    /\ result_stack = <<None>>
    /\ msgs_seen = {}
    /\ tail_cache = EmptyDict
    /\ tail_result_cache = EmptyDict
    /\ gens = <<NewGen(Root, "root", 0, 0, 0, 0)>>
    /\ out = <<>>
    /\ nextMsg = 1
    /\ msgs = <<>>
    /\ lastMsg = 0
    /\ frame = [fn |-> "declines_below_root", plan |-> Root, held |-> {}]
    /\ engRet = Unanswered
    /\ engErr = NoFault
    /\ swallowed = <<>>
    /\ illegalMsg = 0
    /\ userThrew = FALSE
    /\ faultBy = 0
    /\ spliced = FALSE

\* a caller that answers every message it is given and neither throws nor
\* closes; the loop of a running generator goes on until its next yield,
\* return or raise
NextAnswered == Resume \/ Send

SpecAnswered ==
    InitAnswered /\ [][NextAnswered]_vars /\ WF_vars(Resume) /\ WF_vars(Send)

(***************************************************************************)
(* finalize, driven by a caller.                                           *)
(***************************************************************************)
\* the locals of finalize(plan, final_plan): where it is, the fault the
\* finally block holds back, and ret
FinalizeFrame(p, f) ==
    [fn |-> "finalize", phase |-> "main", pending |-> NoFault, ret |-> None,
     plan |-> p, final |-> f]

\* yield from: a message of sub-plan g is yielded to the caller
Delegated(s, g, o) ==
    YieldOut([s EXCEPT !.gens[g] = o.g,
                       !.msgs = IF o.msg = s.nextMsg
                                  THEN Append(@, NewMsg(o.msg, o)) ELSE @,
                       !.nextMsg = Bump(s, o.msg)], g, o.msg)

FinalizeRetFinal(ret, fval) == fval

\* return ret
FinalizeRet(ret, fval) == ret

\* finally: yield from final_plan -- what final_plan did when resumed; at its
\* end the fault held back is raised again, or ret is returned
OnFinalOutcome(s, o) ==
    LET f == s.frame.final
        s1 == [s EXCEPT !.gens[f] = o.g]
    IN  CASE o.t = "yield" -> Delegated(s, f, o)
          [] o.t = "stop" ->
               {IF s.frame.pending = NoFault
                  THEN [s1 EXCEPT !.pc = "returned",
                                  !.engRet = FinalizeRet(s.frame.ret, o.val)]
                  ELSE [s1 EXCEPT !.pc = "raised",
                                  !.engErr = s.frame.pending]}
          [] OTHER -> {[s1 EXCEPT !.pc = "raised", !.engErr = o.fault]}

\* a finalize whose cleanup is skipped when the plan faults
AfterPlanElse(s, ex, ret) ==
    IF ex # NoFault THEN {[s EXCEPT !.pc = "raised", !.engErr = ex]}
    ELSE LET s1 == [s EXCEPT !.frame.phase = "final", !.frame.ret = ret]
         IN  UNION {OnFinalOutcome(s1, o) :
                      o \in GenSend(s1.gens[s1.frame.final], None, s1.nextMsg)}

\* the try block was left, by fault ex or normally with ret: the finally
\* block starts final_plan
AfterPlan(s, ex, ret) ==
    LET s1 == [s EXCEPT !.frame.phase = "final", !.frame.pending = ex,
                        !.frame.ret = ret]
    IN  UNION {OnFinalOutcome(s1, o) :
                 o \in GenSend(s1.gens[s1.frame.final], None, s1.nextMsg)}

\* try: ret = yield from plan -- what plan did when resumed
OnPlanOutcome(s, o) ==
    LET p == s.frame.plan
        s1 == [s EXCEPT !.gens[p] = o.g]
    IN  CASE o.t = "yield" -> Delegated(s, p, o)
          [] o.t = "stop" -> AfterPlan(s1, NoFault, o.val)
          [] OTHER -> AfterPlan(s1, o.fault, None)

\* finalize resumed with v: yield from hands v to the sub-plan it is in
FzSend(s, v) ==
    IF s.frame.phase = "main"
      THEN UNION {OnPlanOutcome(s, o) :
                    o \in GenSend(s.gens[s.frame.plan], v, s.nextMsg)}
      ELSE UNION {OnFinalOutcome(s, o) :
                    o \in GenSend(s.gens[s.frame.final], v, s.nextMsg)}

\* a fault thrown in at finalize's yield: yield from throws it into the
\* sub-plan it is in
FzThrow(s, ex) ==
    IF s.frame.phase = "main"
      THEN UNION {OnPlanOutcome(s, o) :
                    o \in GenThrow(s.gens[s.frame.plan], ex, s.nextMsg)}
      ELSE UNION {OnFinalOutcome(s, o) :
                    o \in GenThrow(s.gens[s.frame.final], ex, s.nextMsg)}

\* the state shared by the specifications of the generator functions that
\* are driven directly: no plan_mutator is involved
NoEngine ==
    /\ plan_stack = <<>>
    /\ result_stack = <<>>
    /\ msgs_seen = {}
    /\ tail_cache = EmptyDict
    /\ tail_result_cache = EmptyDict
    /\ out = <<>>
    /\ nextMsg = 1
    /\ msgs = <<>>
    /\ lastMsg = 0
    /\ engRet = Unanswered
    /\ engErr = NoFault
    /\ swallowed = <<>>
    /\ illegalMsg = 0
    /\ userThrew = FALSE
    /\ faultBy = 0
    /\ spliced = FALSE

InitFinalize ==
    /\ pc = "start"
    /\ gens = <<NewGen(1, "plan", 0, 0, 0, 0), NewGen(2, "final", 0, 0, 0, 0)>>
    /\ frame = FinalizeFrame(1, 2)
    /\ NoEngine

\* the caller's first next()
FinalizeStart ==
    /\ pc = "start"
    /\ \E r \in FzSend(Cur, None) : Become(r)

\* the caller answers the message it was given
FinalizeResume ==
    /\ pc = "yield"
    /\ \E v \in Responses :
         \E r \in FzSend([Cur EXCEPT !.out[Len(out)].resp = v], v) : Become(r)

\* the caller throws a fault in at the yield
FinalizeThrown ==
    /\ pc = "yield"
    /\ \E r \in FzThrow([Cur EXCEPT !.userThrew = TRUE], "UserFault") :
         Become(r)

NextFinalize == FinalizeStart \/ FinalizeResume \/ FinalizeThrown

SpecFinalize == InitFinalize /\ [][NextFinalize]_vars

(***************************************************************************)
(* bschain, driven by a caller.                                            *)
(***************************************************************************)
\* the locals of bschain(*args): the position of the for loop and rets
ChainFrame(n) == [fn |-> "bschain", i |-> 1, n |-> n, rets |-> <<>>]

CollectFirst(rets, val) == <<val>> \o rets

\* rets.append((yield from p))
Collect(rets, val) == Append(rets, val)

RECURSIVE ChainSend(_, _)
\* a chain that runs its last plan when an earlier one faults
ChainFaultThenLast(s, o) ==
    ChainSend([s EXCEPT !.frame.i = s.frame.n], None)

\* a fault of the plan the loop is at: bschain has no handler and no finally
ChainFault(s, o) == {[s EXCEPT !.pc = "raised", !.engErr = o.fault]}

\* what the plan the for loop is at did when resumed
ChainOutcome(s, o) ==
    LET i == s.frame.i
        s1 == [s EXCEPT !.gens[i] = o.g]
    IN  CASE o.t = "yield" -> Delegated(s, i, o)
          [] o.t = "stop" ->
               ChainSend([s1 EXCEPT !.frame.rets = Collect(@, o.val),
                                    !.frame.i = @ + 1], None)
          [] OTHER -> ChainFault(s1, o)

\* bschain resumed with v: yield from hands v to the plan the loop is at;
\* after the last plan, return tuple(rets)
ChainSend(s, v) ==
    IF s.frame.i > s.frame.n
      THEN {[s EXCEPT !.pc = "returned", !.engRet = s.frame.rets]}
      ELSE UNION {ChainOutcome(s, o) :
                    o \in GenSend(s.gens[s.frame.i], v, s.nextMsg)}

\* a fault thrown in at bschain's yield goes to the plan the loop is at
ChainThrow(s, ex) ==
    UNION {ChainOutcome(s, o) :
             o \in GenThrow(s.gens[s.frame.i], ex, s.nextMsg)}

InitChain ==
    /\ pc = "start"
    /\ \E n \in 0..MaxChain :
         /\ gens = [i \in 1..n |-> NewGen(i, "plan", 0, 0, 0, 0)]
         /\ frame = ChainFrame(n)
    /\ NoEngine

\* the caller's first next()
ChainStart ==
    /\ pc = "start"
    /\ \E r \in ChainSend(Cur, None) : Become(r)

\* the caller answers the message it was given
ChainResume ==
    /\ pc = "yield"
    /\ \E v \in Responses :
         \E r \in ChainSend([Cur EXCEPT !.out[Len(out)].resp = v], v) : Become(r)

\* the caller throws a fault in at the yield
ChainThrown ==
    /\ pc = "yield"
    /\ \E r \in ChainThrow([Cur EXCEPT !.userThrew = TRUE], "UserFault") :
         Become(r)

NextChain == ChainStart \/ ChainResume \/ ChainThrown

SpecChain == InitChain /\ [][NextChain]_vars

(***************************************************************************)
(* msg_mutator, driven by a caller.                                        *)
(***************************************************************************)
\* the locals of msg_mutator(plan, msg_proc); fx records what msg_proc
\* returned for each message of the plan (None, or a message)
MutatorFrame == [fn |-> "msg_mutator", fx |-> <<>>]

\* msg_proc(msg): None, the message itself, or a message it constructs
ProcResults(s, m) ==
    {None, m} \cup (IF s.nextMsg <= MaxMsgs THEN {s.nextMsg} ELSE {})

SuppressedRetKept(ret) == ret

\* if msg is None: ret = None
SuppressedRet(ret) == None

RECURSIVE MutatorSend(_, _)
\* msg = msg_proc(msg) gave fm for the message the plan just yielded
Processed(s, ret, fm) ==
    LET s1 == [s EXCEPT !.frame.fx = Append(@, fm)]
    IN  IF fm = None
          THEN MutatorSend(s1, SuppressedRet(ret))
          ELSE YieldOut([s1 EXCEPT
                           !.msgs = IF fm = s.nextMsg
                                      THEN Append(@, [addr |-> fm, procd |-> 0,
                                                      cmd |-> "msg",
                                                      obj |-> None,
                                                      arg |-> None])
                                      ELSE @,
                           !.nextMsg = Bump(s, fm)], 1, fm)

\* one turn of the while loop: msg = plan.send(ret)
MutatorSend(s, ret) ==
    UNION { LET s1 == [s EXCEPT !.gens[1] = o.g,
                                !.msgs = IF o.msg = s.nextMsg
                                           THEN Append(@, NewMsg(o.msg, o))
                                           ELSE @,
                                !.nextMsg = Bump(s, o.msg)]
            IN  CASE o.t = "yield" ->
                       UNION {Processed([s1 EXCEPT !.msgs[o.msg].procd = @ + 1],
                                        ret, fm) :
                                fm \in ProcResults(s1, o.msg)}
                  [] o.t = "stop" ->
                       {[s1 EXCEPT !.pc = "returned",
                                   !.engRet = CloseValue(o.g)]}
                  [] OTHER -> {[s1 EXCEPT !.pc = "raised", !.engErr = o.fault]}
            : o \in GenSend(s.gens[1], ret, s.nextMsg) }

InitMutator ==
    /\ pc = "start"
    /\ gens = <<NewGen(Root, "root", 0, 0, 0, 0)>>
    /\ frame = MutatorFrame
    /\ NoEngine

\* the caller's first next(): ret = None
MutatorStart ==
    /\ pc = "start"
    /\ \E r \in MutatorSend(Cur, None) : Become(r)

\* ret = yield msg: the caller answers
MutatorResume ==
    /\ pc = "yield"
    /\ \E v \in Responses :
         \E r \in MutatorSend([Cur EXCEPT !.out[Len(out)].resp = v], v) :
             Become(r)

\* a fault thrown in at `yield msg` is not a StopIteration: it leaves
\* msg_mutator, and the plan is not told
MutatorThrown ==
    /\ pc = "yield"
    /\ Become([Cur EXCEPT !.userThrew = TRUE, !.pc = "raised",
                          !.engErr = "UserFault"])

NextMutator == MutatorStart \/ MutatorResume \/ MutatorThrown

SpecMutator == InitMutator /\ [][NextMutator]_vars

(***************************************************************************)
(* stage_wrapper: finalize(plan_mutator(plan, inner), unstage()).          *)
(***************************************************************************)
\* the engine's state at the start of plan_mutator(plan, inner), plan being
\* gens[Root]
EngineStarts ==
    /\ pc = "loop"
    /\ plan_stack = <<Root>>
    /\ result_stack = <<None>>
    /\ msgs_seen = {}
    /\ tail_cache = EmptyDict
    /\ tail_result_cache = EmptyDict
    /\ out = <<>>
    /\ nextMsg = 1
    /\ msgs = <<>>
    /\ lastMsg = 0
    /\ engRet = Unanswered
    /\ engErr = NoFault
    /\ swallowed = <<>>
    /\ illegalMsg = 0
    /\ userThrew = FALSE
    /\ faultBy = 0
    /\ spliced = FALSE

\* a plan over devices, and unstage()
InitStage ==
    /\ gens = <<[NewGen(Root, "plan", 0, 0, 0, 0) EXCEPT !.body = "plan"],
                [NewGen(2, "final", 0, 0, 0, 0) EXCEPT !.body = "unstage",
                                                       !.arg = {}]>>
    /\ frame = [fn |-> "stage_wrapper", seen_objs |-> {}, phase |-> "main",
                pending |-> NoFault, ret |-> None, plan |-> Root, final |-> 2,
                held |-> {}]
    /\ EngineStarts

\* finalize sees plan_mutator return or raise: the finally block starts
\* unstage(), whose loop reads seen_objs
Finalized(r) ==
    IF r.frame.phase = "main" /\ r.pc \in {"returned", "raised"}
      THEN AfterPlan([r EXCEPT !.gens[r.frame.final].arg = r.frame.seen_objs,
                               !.engErr = NoFault, !.engRet = Unanswered],
                     IF r.pc = "raised" THEN r.engErr ELSE NoFault, r.engRet)
      ELSE {r}

\* the engine's loop runs
StageRun ==
    /\ pc = "loop"
    /\ \E r \in Iterate(Cur) : \E r2 \in Finalized(r) : Become(r2)

\* the caller answers a message of the engine
StageSend ==
    /\ pc = "yield" /\ frame.phase = "main"
    /\ \E v \in Responses :
         Become([Cur EXCEPT !.result_stack = Append(@, YieldResult(v)),
                            !.out[Len(out)].resp = v,
                            !.pc = "loop"])

\* the caller answers a message of unstage()
StageSendFinal ==
    /\ pc = "yield" /\ frame.phase = "final"
    /\ \E v \in Responses :
         \E r \in FzSend([Cur EXCEPT !.out[Len(out)].resp = v], v) : Become(r)

\* the caller throws a fault in at a yield of the engine
StageThrow ==
    /\ pc = "yield" /\ frame.phase = "main"
    /\ \E r \in Raise([Cur EXCEPT !.userThrew = TRUE], "UserFault") :
         \E r2 \in Finalized(r) : Become(r2)

\* the caller throws a fault in at a yield of unstage()
StageThrowFinal ==
    /\ pc = "yield" /\ frame.phase = "final"
    /\ \E r \in FzThrow([Cur EXCEPT !.userThrew = TRUE], "UserFault") :
         Become(r)

NextStage ==
    StageRun \/ StageSend \/ StageSendFinal \/ StageThrow \/ StageThrowFinal

SpecStage == InitStage /\ [][NextStage]_vars

(***************************************************************************)
(* lazily_stage: plan_mutator(plan, inner).                                *)
(***************************************************************************)
InitLazy ==
    /\ gens = <<[NewGen(Root, "plan", 0, 0, 0, 0) EXCEPT !.body = "plan"]>>
    /\ frame = [fn |-> "lazily_stage", devices_staged |-> <<>>,
                plan |-> Root, held |-> {}]
    /\ EngineStarts

\* what the caller answers to the message just yielded
LazyResponses ==
    LET m == msgs[out[Len(out)].msg]
    IN  IF m.cmd = "stage"
          THEN {None, ListCode(m.obj, FALSE), ListCode(m.obj, TRUE)}
          ELSE Responses

\* the caller answers a message
LazySend ==
    /\ pc = "yield"
    /\ \E v \in LazyResponses :
         Become([Cur EXCEPT !.result_stack = Append(@, YieldResult(v)),
                            !.out[Len(out)].resp = v,
                            !.pc = "loop"])

NextLazy == Resume \/ LazySend \/ Throw

SpecLazy == InitLazy /\ [][NextLazy]_vars

(***************************************************************************)
(* fly_during: plan_mutator(plan_mutator(plan, insert_after_open),         *)
(* insert_before_close).                                                   *)
(***************************************************************************)
\* grp = _short_uid('flyers')
Grp == "flyers"

\* kickoff_msgs and collect_msgs for flyers 1..nf: the message instances are
\* made once, before the plan runs
KickoffMsgs(nf) == [i \in 1..nf |-> i]
CollectMsgs(nf) ==
    IF nf > 0 THEN <<nf + 1>> \o [i \in 1..nf |-> nf + 1 + i] ELSE <<>>
FlyMsgs(nf) ==
    [i \in 1..nf |-> [addr |-> i, procd |-> 0, cmd |-> "kickoff", obj |-> i,
                      arg |-> Grp]]
      \o (IF nf > 0
            THEN <<[addr |-> nf + 1, procd |-> 0, cmd |-> "wait", obj |-> None,
                    arg |-> Grp]>>
            ELSE <<>>)
      \o [i \in 1..nf |-> [addr |-> nf + 1 + i, procd |-> 0, cmd |-> "collect",
                            obj |-> i, arg |-> None]]

\* the locals of fly_during that its two msg_proc functions read
FlyFrame(fn, plan, nf) ==
    [fn |-> fn, plan |-> plan, held |-> 1..Len(FlyMsgs(nf)),
     kickoff_msgs |-> KickoffMsgs(nf), collect_msgs |-> CollectMsgs(nf)]

\* plan1 = plan_mutator(plan, insert_after_open), not started
Plan1(nf) ==
    [NewGen(2, "engine", 0, 0, 0, 0) EXCEPT
       !.arg = [pc |-> "loop", plan_stack |-> <<Root>>,
                result_stack |-> <<None>>, msgs_seen |-> {},
                tail_cache |-> EmptyDict, tail_result_cache |-> EmptyDict,
                out |-> <<>>, lastMsg |-> 0, engRet |-> Unanswered,
                engErr |-> NoFault,
                frame |-> FlyFrame("insert_after_open", Root, nf)]]

\* plan2 = plan_mutator(plan1, insert_before_close) is what the caller drives
InitFly ==
    \E nf \in 0..MaxFlyers :
        /\ pc = "loop"
        /\ gens = <<[NewGen(Root, "plan", 0, 0, 0, 0) EXCEPT !.body = "runplan"],
                    Plan1(nf)>>
        /\ frame = FlyFrame("insert_before_close", 2, nf)
        /\ plan_stack = <<2>>
        /\ result_stack = <<None>>
        /\ msgs_seen = {}
        /\ tail_cache = EmptyDict
        /\ tail_result_cache = EmptyDict
        /\ out = <<>>
        /\ msgs = FlyMsgs(nf)
        /\ nextMsg = Len(FlyMsgs(nf)) + 1
        /\ lastMsg = 0
        /\ engRet = Unanswered
        /\ engErr = NoFault
        /\ swallowed = <<>>
        /\ illegalMsg = 0
        /\ userThrew = FALSE
        /\ faultBy = 0
        /\ spliced = FALSE

\* the caller answers a message, with nothing or with a value
FlySend ==
    /\ pc = "yield"
    /\ \E v \in {None} \cup Responses :
         Become([Cur EXCEPT !.result_stack = Append(@, YieldResult(v)),
                            !.out[Len(out)].resp = v,
                            !.pc = "loop"])

NextFly == Resume \/ FlySend \/ Throw

SpecFly == InitFly /\ [][NextFly]_vars

(***************************************************************************)
(* subscription_wrapper, driven by a caller:                               *)
(*   bschain(subscribe(), finalize(plan, unsubscribe()))                   *)
(***************************************************************************)
\* tokens.add(token) that keeps only the first token
AddTokenFirst(tokens, v) == IF tokens = {} THEN {v} ELSE tokens

\* tokens.add(token)
AddToken(tokens, v) == tokens \cup {v}

\* the values a caller can answer a 'subscribe' with
Tokens == 0..MaxTokens

\* gens[1] is subscribe(), gens[2] the plan, gens[3] unsubscribe(); tokens
\* is the set shared by subscribe() and unsubscribe()
SubsFrame ==
    [fn |-> "subscription_wrapper", phase |-> "subscribe", pending |-> NoFault,
     ret |-> None, plan |-> 2, final |-> 3, tokens |-> {}]

\* bschain returns the tuple of what subscribe() and finalize returned
SubsEnd(r) ==
    IF r.pc = "returned" THEN [r EXCEPT !.engRet = <<None, r.engRet>>] ELSE r

\* what subscribe() did when resumed; when it has returned, bschain starts
\* finalize(plan, unsubscribe()), and unsubscribe() will iterate tokens, which
\* nothing changes any more
SubscribeOutcome(s, o) ==
    LET s1 == [s EXCEPT !.gens[1] = o.g]
    IN  CASE o.t = "yield" -> Delegated(s, 1, o)
          [] o.t = "stop" ->
               {SubsEnd(r) :
                  r \in FzSend([s1 EXCEPT !.frame.phase = "main",
                                          !.gens[3].arg = s.frame.tokens],
                               None)}
          [] OTHER -> {[s1 EXCEPT !.pc = "raised", !.engErr = o.fault]}

\* subscription_wrapper resumed with v: yield from hands v to the generator
\* the chain is at; in subscribe() v is the token
SubsSend(s, v) ==
    IF s.frame.phase = "subscribe"
      THEN LET s1 == IF s.gens[1].st = "susp"
                       THEN [s EXCEPT !.frame.tokens = AddToken(@, v)]
                       ELSE s
           IN  UNION {SubscribeOutcome(s1, o) :
                        o \in GenSend(s1.gens[1], v, s1.nextMsg)}
      ELSE {SubsEnd(r) : r \in FzSend(s, v)}

\* a fault thrown in at the yield goes to the generator the chain is at
SubsThrow(s, ex) ==
    IF s.frame.phase = "subscribe"
      THEN UNION {SubscribeOutcome(s, o) :
                    o \in GenThrow(s.gens[1], ex, s.nextMsg)}
      ELSE FzThrow(s, ex)

\* subs, normalized, has 0..MaxSubs (name, func) pairs
InitSubs ==
    /\ pc = "start"
    /\ \E n \in 0..MaxSubs :
         gens = <<[NewGen(1, "subscribe", 0, 0, 0, 0) EXCEPT
                     !.body = "subscribe", !.arg = n],
                  NewGen(2, "plan", 0, 0, 0, 0),
                  [NewGen(3, "final", 0, 0, 0, 0) EXCEPT
                     !.body = "unsubscribe", !.arg = {}]>>
    /\ frame = SubsFrame
    /\ NoEngine

\* the caller's first next()
SubsStart ==
    /\ pc = "start"
    /\ \E r \in SubsSend(Cur, None) : Become(r)

\* the caller answers a 'subscribe' with a token, any other message with a
\* response
SubsResume ==
    /\ pc = "yield"
    /\ \E v \in (IF frame.phase = "subscribe" THEN Tokens ELSE Responses) :
         \E r \in SubsSend([Cur EXCEPT !.out[Len(out)].resp = v], v) : Become(r)

\* the caller throws a fault in at the yield
SubsThrown ==
    /\ pc = "yield"
    /\ \E r \in SubsThrow([Cur EXCEPT !.userThrew = TRUE], "UserFault") :
         Become(r)

NextSubs == SubsStart \/ SubsResume \/ SubsThrown

SpecSubs == InitSubs /\ [][NextSubs]_vars

(***************************************************************************)
(* run_wrapper, and a plan_stack filled inside event_context and run by    *)
(* planify, driven by a caller.                                            *)
(***************************************************************************)
\* the two messages of a bracket: Msg('open_run', None, **md) and
\* Msg('close_run'), or Msg('create', None, name=name) and Msg('save')
Bracket(fn) ==
    IF fn = "run_wrapper" THEN <<"open_run", "close_run">>
                          ELSE <<"create", "save">>
BracketMsgs(fn) ==
    [i \in 1..2 |-> [addr |-> i, procd |-> 0, cmd |-> Bracket(fn)[i],
                     obj |-> None, arg |-> None]]

\* single_gen(msg) for the message constructed as number m
SingleGen(id, m) ==
    [NewGen(id, "single", 0, 0, m, 0) EXCEPT !.body = "single_gen"]

\* the generators in the order they are run: run_wrapper chains
\* single_gen(open_run), plan, single_gen(close_run); the with block of
\* event_context appends single_gen(create), then the block's np plans, then
\* single_gen(save)
Bracketed(np) ==
    <<SingleGen(1, 1)>> \o [i \in 1..np |-> NewGen(i + 1, "plan", 0, 0, 0, 0)]
      \o <<SingleGen(np + 2, 2)>>

\* bschain returns tuple(rets); the loop of planify returns nothing
RunEnd(r) ==
    IF r.pc = "returned" /\ r.frame.fn = "planify"
      THEN [r EXCEPT !.engRet = None] ELSE r

InitRun ==
    /\ pc = "start"
    /\ \E fn \in {"run_wrapper", "planify"} :
         \E np \in (IF fn = "run_wrapper" THEN {1} ELSE 0..MaxEnclosed) :
           /\ gens = Bracketed(np)
           /\ frame = [ChainFrame(np + 2) EXCEPT !.fn = fn]
           /\ msgs = BracketMsgs(fn)
    /\ nextMsg = 3
    /\ plan_stack = <<>>
    /\ result_stack = <<>>
    /\ msgs_seen = {}
    /\ tail_cache = EmptyDict
    /\ tail_result_cache = EmptyDict
    /\ out = <<>>
    /\ lastMsg = 0
    /\ engRet = Unanswered
    /\ engErr = NoFault
    /\ swallowed = <<>>
    /\ illegalMsg = 0
    /\ userThrew = FALSE
    /\ faultBy = 0
    /\ spliced = FALSE

\* the caller's first next()
RunStart ==
    /\ pc = "start"
    /\ \E r \in ChainSend(Cur, None) : Become(RunEnd(r))

\* the caller answers the message it was given
RunResume ==
    /\ pc = "yield"
    /\ \E v \in Responses :
         \E r \in ChainSend([Cur EXCEPT !.out[Len(out)].resp = v], v) :
             Become(RunEnd(r))

\* the caller throws a fault in at the yield
RunThrown ==
    /\ pc = "yield"
    /\ \E r \in ChainThrow([Cur EXCEPT !.userThrew = TRUE], "UserFault") :
         Become(r)

NextRun == RunStart \/ RunResume \/ RunThrown

SpecRun == InitRun /\ [][NextRun]_vars

(***************************************************************************)
(* relative_set, driven by a caller.                                       *)
(***************************************************************************)
\* the messages of a plan that moves and reads movable devices 1..NumMovable:
\* set(obj, arg) and read(obj)
RelMsgs == [cmd : {"set", "read"}, obj : 1..NumMovable, arg : 0..MaxRel]
RelPlans == UNION {[1..n -> RelMsgs] : n \in 0..MaxRelPlan}

\* msg.obj.position, queried before anything has moved
Position(obj) == 10 * obj

\* f(msg) of relative_set with initial_positions being ip: the new dict, the
\* devices whose position was queried, and new_msg of the tuple
\* [], new_msg, [] that f returns
RelF(ip, devices, m) ==
    IF m.cmd = "set" /\ (devices = "None" \/ m.obj \in devices)
      THEN LET ip1 == IF m.obj \notin DOMAIN ip
                        THEN ip @@ (m.obj :> Position(m.obj)) ELSE ip
           IN  [ip |-> ip1,
                queried |-> IF m.obj \notin DOMAIN ip THEN <<m.obj>> ELSE <<>>,
                new_msg |-> [m EXCEPT !.arg = ip1[m.obj] + m.arg]]
      ELSE [ip |-> ip, queried |-> <<>>, new_msg |-> m]

\* the plan given to relative_set is gens[1], its messages being gens[1].arg;
\* devices is None (every device) or a collection of devices
InitRel ==
    /\ pc = "start"
    /\ \E p \in RelPlans :
         gens = <<[NewGen(Root, "plan", 0, 0, 0, 0) EXCEPT !.body = "script",
                                                           !.arg = p]>>
    /\ \E ds \in {"None"} \cup SUBSET (1..NumMovable) :
         frame = [fn |-> "relative_set", devices |-> ds,
                  initial_positions |-> EmptyDict, queried |-> <<>>]
    /\ NoEngine

\* the caller's first next(): initial_positions = {}, def f, and then
\* `plan = simple_preprocessor(f)(plan)`.  plans.py neither defines nor
\* imports the name simple_preprocessor, so its lookup raises NameError
\* before the plan is started
RelStart ==
    /\ pc = "start"
    /\ Become([Cur EXCEPT !.pc = "raised", !.engErr = "NameError"])

NextRel == RelStart

SpecRel == InitRel /\ [][NextRel]_vars

(***************************************************************************)
(* configure_count_time (spec_api.py), driven by a caller.                 *)
(***************************************************************************)
\* hasattr(obj, 'count_time'): every device but the last has a count_time
HasCountTime(d) == d \in Devices /\ d # NumDevices

\* obj.count_time, the signal that the 'set' messages target
CountTimeOf(d) == 50 + d

\* obj.count_time.get() before the plan ran, and the time given
OrigTime(d) == 20 + d
TimeArg == 7

\* devices_seen membership that forgets what it saw
NotSeenForgetful(obj, devices_seen) == TRUE

\* obj not in devices_seen
NotSeen(obj, devices_seen) == obj \notin devices_seen

\* the locals of configure_count_time; at is the yield it is suspended at,
\* msg the plan's message it holds, left the items the finally loop has not
\* reached, pending what is propagating through the finally block
CountFrame ==
    [fn |-> "configure_count_time", devices_seen |-> {},
     original_times |-> EmptyDict, phase |-> "main", at |-> "none",
     msg |-> 0, left |-> {}, pending |-> NoFault, plan |-> Root]

\* a message made by configure_count_time itself reaches the caller
CountYieldSet(s, d, t) ==
    [s EXCEPT !.msgs = Append(@, [addr |-> s.nextMsg, procd |-> 0,
                                  cmd |-> "set", obj |-> CountTimeOf(d),
                                  arg |-> t]),
              !.nextMsg = @ + 1,
              !.out = Append(@, [msg |-> s.nextMsg, src |-> 0, idx |-> 0,
                                 resp |-> Unanswered]),
              !.pc = "yield"]

\* finally: for obj, time in original_times.items(): yield Msg('set', ...).
\* The items come in the dict's order, which is insertion order only from
\* Python 3.7 on; after the loop what was propagating goes on.  The plan's
\* StopIteration is caught nowhere: it leaves the generator function, which
\* ends the generator (before PEP 479) or raises RuntimeError (since)
CountRestore(s) ==
    IF s.frame.left # {}
      THEN {[CountYieldSet(s, d, s.frame.original_times[d])
               EXCEPT !.frame.left = @ \ {d}, !.frame.at = "restore"]
              : d \in s.frame.left}
      ELSE IF s.frame.pending = "StopIteration"
        THEN {[s EXCEPT !.pc = "returned", !.engRet = None],
              [s EXCEPT !.pc = "raised", !.engErr = "RuntimeError"]}
        ELSE {[s EXCEPT !.pc = "raised", !.engErr = s.frame.pending]}

\* the try block is left with ex propagating
CountFinally(s, ex) ==
    CountRestore([s EXCEPT !.frame.phase = "final", !.frame.pending = ex,
                           !.frame.left = DOMAIN s.frame.original_times])

\* ret = yield msg
CountYieldMsg(s) ==
    {[s EXCEPT !.out = Append(@, [msg |-> s.frame.msg, src |-> Root,
                                  idx |-> Len(s.gens[Root].yielded),
                                  resp |-> Unanswered]),
               !.frame.at = "msg", !.pc = "yield"]}

\* msg = plan.send(ret) and the if block after it
CountStep(s, ret) ==
    UNION {
      LET s1 == [s EXCEPT !.gens[Root] = o.g]
      IN  CASE o.t = "yield" ->
                 LET s2 == [s1 EXCEPT !.msgs = Append(@, NewMsg(o.msg, o)),
                                      !.nextMsg = @ + 1,
                                      !.frame.msg = o.msg]
                 IN  IF o.obj # None /\ NotSeen(o.obj, s.frame.devices_seen)
                       THEN LET s3 == [s2 EXCEPT !.frame.devices_seen =
                                                     @ \cup {o.obj}]
                            IN  IF HasCountTime(o.obj)
                                  THEN {[CountYieldSet(s3, o.obj, TimeArg)
                                           EXCEPT !.frame.original_times =
                                                    DictSet(@, o.obj,
                                                            OrigTime(o.obj)),
                                                  !.frame.at = "set"]}
                                  ELSE CountYieldMsg(s3)
                       ELSE CountYieldMsg(s2)
            [] o.t = "stop" -> CountFinally(s1, "StopIteration")
            [] OTHER -> CountFinally(s1, o.fault)
      : o \in GenSend(s.gens[Root], ret, s.nextMsg) }

\* configure_count_time resumed with v: the response to its own 'set' is
\* dropped, the response to the plan's message goes to the plan
CountSend(s, v) ==
    CASE s.frame.at = "set" -> CountYieldMsg(s)
      [] s.frame.at = "restore" -> CountRestore(s)
      [] OTHER -> CountStep(s, v)

\* a fault thrown in at a yield of the try block runs the finally block; the
\* plan is not told.  Thrown in at a yield of the finally block it ends the
\* loop
CountThrow(s, ex) ==
    IF s.frame.phase = "main"
      THEN CountFinally(s, ex)
      ELSE {[s EXCEPT !.pc = "raised", !.engErr = ex,
                      !.frame.pending = "abandoned"]}

InitCount ==
    /\ pc = "start"
    /\ gens = <<[NewGen(Root, "plan", 0, 0, 0, 0) EXCEPT !.body = "plan"]>>
    /\ frame = CountFrame
    /\ NoEngine

\* the caller's first next()
CountStart ==
    /\ pc = "start"
    /\ \E r \in CountSend(Cur, None) : Become(r)

\* the caller answers the message it was given
CountResume ==
    /\ pc = "yield"
    /\ \E v \in Responses :
         \E r \in CountSend([Cur EXCEPT !.out[Len(out)].resp = v], v) :
             Become(r)

\* the caller throws a fault in at the yield
CountThrown ==
    /\ pc = "yield"
    /\ \E r \in CountThrow([Cur EXCEPT !.userThrew = TRUE], "UserFault") :
         Become(r)

NextCount == CountStart \/ CountResume \/ CountThrown

SpecCount == InitCount /\ [][NextCount]_vars

(***************************************************************************)
(* The argument checks of the trajectory scans, made at the first next()   *)
(* of the generator each of them returns.                                  *)
(***************************************************************************)
Scans ==
    {"inner_product_scan", "relative_inner_product_scan",
     "outer_product_scan", "relative_outer_product_scan", "a2scan", "d2scan"}

\* *args of 0..MaxArgs positional values; only their number is looked at
ArgLists == {[i \in 1..n |-> "arg"] : n \in 0..MaxArgs}

\* list.insert(i, x) with i counted from 0: past the end it appends
ListInsert(l, i, x) ==
    IF i >= Len(l) THEN Append(l, x)
    ELSE SubSeq(l, 1, i) \o <<x>> \o SubSeq(l, i + 1, Len(l))

\* an outer product scan that leaves the list as it is
OuterPaddedNot(args) == args

\* args = list(args); args.insert(4, False)
OuterPadded(args) == ListInsert(args, 4, "False")

\* the condition under which the scan raises ValueError("wrong number of
\* positional arguments")
WrongNumber(fn, args) ==
    CASE fn \in {"inner_product_scan", "relative_inner_product_scan"} ->
           Len(args) % 3 # 0
      [] fn \in {"outer_product_scan", "relative_outer_product_scan"} ->
           Len(OuterPadded(args)) % 5 # 0
      [] OTHER -> Len(args) % 3 # 1

InitArgs ==
    /\ pc = "start"
    /\ gens = <<>>
    /\ \E fn \in Scans : \E args \in ArgLists :
         frame = [fn |-> fn, args |-> args]
    /\ NoEngine

\* the first next(): the check is the first statement of the body; when it
\* passes the scan goes on to build its trajectory
ArgsChecked ==
    /\ pc = "start"
    /\ Become(IF WrongNumber(frame.fn, frame.args)
                THEN [Cur EXCEPT !.pc = "raised", !.engErr = "ValueError"]
                ELSE [Cur EXCEPT !.pc = "building"])

NextArgs == ArgsChecked

SpecArgs == InitArgs /\ [][NextArgs]_vars

(***************************************************************************)
(* trigger_and_read, driven by a caller.                                   *)
(***************************************************************************)
\* the lists of devices given: up to MaxDevList devices, repeats allowed
DevLists == UNION {[1..n -> Devices] : n \in 0..MaxDevList}

\* hasattr(obj, 'trigger'): every device but the last has a trigger method
HasTrigger(d) == d # NumDevices

\* separate_devices(devices) "remove redundant entries": an entry that
\* occurred before is dropped, the order of the others is kept
RECURSIVE separate_devices(_)
separate_devices(l) ==
    IF l = <<>> THEN <<>>
    ELSE LET front == separate_devices(Front(l))
         IN  IF \E i \in 1..Len(front) : front[i] = Last(l)
               THEN front ELSE Append(front, Last(l))

\* Msg(cmd, obj, arg, block_group=grp); NoGroup when no block_group is given
NoGroup == "None"
ScriptMsg(cmd, obj, arg, grp) ==
    [cmd |-> cmd, obj |-> obj, arg |-> arg, grp |-> grp]

RECURSIVE TriggersOf(_, _)
\* for obj in separate_devices(devices): if hasattr(obj, 'trigger'):
\*     yield Msg('trigger', obj, block_group=grp)
TriggersOf(l, grp) ==
    IF l = <<>> THEN <<>>
    ELSE (IF HasTrigger(l[1])
            THEN <<ScriptMsg("trigger", l[1], None, grp)>> ELSE <<>>)
           \o TriggersOf(Tail(l), grp)

\* a trigger_and_read that does not wait
TriggerAndReadNoWait(devs, grp) ==
    LET devices == separate_devices(devs)
    IN  TriggersOf(separate_devices(devices), grp)
          \o [i \in 1..Len(devices) |->
                ScriptMsg("read", devices[i], None, NoGroup)]

\* the messages trigger_and_read(devs) yields, grp being _short_uid('trigger')
TriggerAndRead(devs, grp) ==
    LET devices == separate_devices(devs)
    IN  TriggersOf(separate_devices(devices), grp)
          \o <<ScriptMsg("wait", None, grp, NoGroup)>>
          \o [i \in 1..Len(devices) |->
                ScriptMsg("read", devices[i], None, NoGroup)]

\* a generator that yields the messages of frame.todo one by one, whatever
\* it is sent, is resumed: the next message is made and yielded, or the
\* generator returns
ScriptSend(s) ==
    IF s.frame.todo = <<>>
      THEN [s EXCEPT !.pc = "returned", !.engRet = None]
      ELSE LET m == s.frame.todo[1]
           IN  [s EXCEPT !.msgs = Append(@, [addr |-> s.nextMsg, procd |-> 0,
                                             cmd |-> m.cmd, obj |-> m.obj,
                                             arg |-> m.arg, grp |-> m.grp]),
                         !.nextMsg = @ + 1,
                         !.out = Append(@, [msg |-> s.nextMsg, src |-> 0,
                                            idx |-> 0, resp |-> Unanswered]),
                         !.frame.todo = Tail(@),
                         !.pc = "yield"]

InitTrig ==
    /\ pc = "start"
    /\ gens = <<>>
    /\ \E l \in DevLists :
         frame = [fn |-> "trigger_and_read", devices |-> l,
                  todo |-> TriggerAndRead(l, "trigger")]
    /\ NoEngine

\* the caller's next() or send(): what is sent is not looked at
ScriptResume ==
    /\ pc \in {"start", "yield"}
    /\ \E v \in (IF pc = "start" THEN {None} ELSE Responses) :
         Become(ScriptSend(IF pc = "start" THEN Cur
                           ELSE [Cur EXCEPT !.out[Len(out)].resp = v]))

\* the caller throws a fault in at the yield: nothing catches it
ScriptThrown ==
    /\ pc = "yield"
    /\ Become([Cur EXCEPT !.pc = "raised", !.engErr = "UserFault",
                          !.userThrew = TRUE])

NextTrig == ScriptResume \/ ScriptThrown

SpecTrig == InitTrig /\ [][NextTrig]_vars

(***************************************************************************)
(* core() of adaptive_scan, driven by a caller.                            *)
(***************************************************************************)
\* the messages of one pass of the while loop of core() with the motor at
\* next_pos; dets is the list of detectors
AdaptiveStep(dets, motor, next_pos) ==
    LET readable == separate_devices(Append(dets, motor))
    IN  <<ScriptMsg("checkpoint", None, None, NoGroup),
          ScriptMsg("set", motor, next_pos, NoGroup),
          ScriptMsg("wait", None, "A", NoGroup),
          ScriptMsg("create", None, None, NoGroup)>>
          \o [i \in 1..Len(dets) |-> ScriptMsg("trigger", dets[i], None, "B")]
          \o <<ScriptMsg("wait", None, "B", NoGroup)>>
          \o [i \in 1..Len(readable) |->
                ScriptMsg("read", readable[i], None, NoGroup)]
          \o <<ScriptMsg("save", None, None, NoGroup)>>

\* core() is resumed with v.  `target_field in cur_det` needs a reading: a
\* 'read' answered with None raises TypeError.  After 'save' the new step
\* size and position are computed from the readings, which the caller
\* decides: after the first pass next_pos goes up, after a later one up or
\* (stepping back) down, here by one; the loop ends when next_pos < stop
\* fails
AdaptiveSend(s, v) ==
    LET f == s.frame
    IN  IF s.out # <<>> /\ s.msgs[Last(s.out).msg].cmd = "read" /\ v = None
          THEN {[s EXCEPT !.pc = "raised", !.engErr = "TypeError"]}
        ELSE IF f.todo # <<>> THEN {ScriptSend(s)}
        ELSE {IF p < f.stop /\ f.steps < MaxSteps
                THEN ScriptSend([s EXCEPT
                       !.frame.todo = AdaptiveStep(f.detectors, f.motor, p),
                       !.frame.next_pos = p,
                       !.frame.steps = @ + 1])
                ELSE [s EXCEPT !.pc = "returned", !.engRet = None]
                : p \in IF f.steps = 0 THEN {f.next_pos}
                        ELSE IF f.steps = 1 THEN {f.next_pos + 1}
                        ELSE {q \in {f.next_pos - 1, f.next_pos + 1} : q >= 0}}

\* detectors 1..nd, the motor being device NumDevices; start = 0
InitAdaptive ==
    /\ pc = "start"
    /\ gens = <<>>
    /\ \E nd \in 1..(NumDevices - 1) : \E stop \in 0..MaxStop :
         frame = [fn |-> "adaptive_scan", detectors |-> [i \in 1..nd |-> i],
                  motor |-> NumDevices, next_pos |-> 0, stop |-> stop,
                  steps |-> 0, todo |-> <<>>]
    /\ NoEngine

\* the caller's next() or send()
AdaptiveResume ==
    /\ pc \in {"start", "yield"}
    /\ \E v \in (IF pc = "start" THEN {None} ELSE {None} \cup Responses) :
         \E r \in AdaptiveSend(IF pc = "start" THEN Cur
                               ELSE [Cur EXCEPT !.out[Len(out)].resp = v], v) :
             Become(r)

NextAdaptive == AdaptiveResume \/ ScriptThrown

SpecAdaptive == InitAdaptive /\ [][NextAdaptive]_vars

(***************************************************************************)
(* _nd_step_scan_core with the default per_step, _one_nd_step, driven by a *)
(* caller.                                                                 *)
(***************************************************************************)
\* the motors of the cycler, in the order of step.items(): devices 2.. ;
\* device 1 is the detector
NdMotors == {[i \in 1..n |-> i + 1] : n \in 1..(NumDevices - 1)}
\* list(cycler) for the motors ms: every step maps every motor to a position
Cyclers(ms) ==
    UNION {[1..n -> [{ms[i] : i \in 1..Len(ms)} -> 1..MaxPos]] : n \in 1..MaxNdSteps}
\* _short_uid('set'): the k-th token drawn
SetTokens == <<"set-1", "set-2", "set-3", "set-4", "set-5", "set-6">>

\* the loop over step.items() of _one_nd_step from motor i on: a motor at
\* its cached position is skipped, after its token was drawn.  The keys of
\* a dict are distinct, so the cache entry a motor is compared with is the
\* one the step started with.
RECURSIVE MoveMsgs(_, _, _, _, _)
MoveMsgs(ms, i, step, pos_cache, uid) ==
    IF i > Len(ms) THEN <<>>
    ELSE (IF step[ms[i]] = pos_cache[ms[i]] THEN <<>>
          ELSE <<ScriptMsg("set", ms[i], step[ms[i]], SetTokens[uid + 1]),
                 ScriptMsg("wait", None, SetTokens[uid + 1], NoGroup)>>)
         \o MoveMsgs(ms, i + 1, step, pos_cache, uid + 1)

\* the messages of _one_nd_step(detectors, step, pos_cache)
OneNdStep(detectors, ms, step, pos_cache, uid) ==
    <<ScriptMsg("checkpoint", None, None, NoGroup)>>
      \o MoveMsgs(ms, 1, step, pos_cache, uid)
      \o TriggerAndRead(detectors \o ms, "trigger")

\* `pos_cache[motor] = pos` is the statement after the yield of the 'set':
\* it runs when the generator is resumed from the message m
CacheAfterStale(pos_cache, m) == pos_cache
CacheAfter(pos_cache, m) ==
    IF m.cmd = "set" THEN [pos_cache EXCEPT ![m.obj] = m.arg] ELSE pos_cache

\* _nd_step_scan_core is resumed by next() or send()
NdSend(s) ==
    LET f  == s.frame
        pc1 == IF s.out = <<>> THEN f.pos_cache
               ELSE CacheAfter(f.pos_cache, s.msgs[Last(s.out).msg])
        s1 == [s EXCEPT !.frame.pos_cache = pc1]
    IN  IF f.todo # <<>> THEN ScriptSend(s1)
        ELSE IF f.stepNo < Len(f.cycler)
          THEN ScriptSend([s1 EXCEPT
                 !.frame.todo = OneNdStep(f.detectors, f.motors,
                                          f.cycler[f.stepNo + 1], pc1, f.uid),
                 !.frame.stepNo = @ + 1,
                 !.frame.uid = @ + Len(f.motors)])
          ELSE [s1 EXCEPT !.pc = "returned", !.engRet = None]

\* last_pos = defaultdict(lambda: None)
InitNd ==
    /\ pc = "start"
    /\ gens = <<>>
    /\ \E ms \in NdMotors : \E c \in Cyclers(ms) :
         frame = [fn |-> "_nd_step_scan_core", detectors |-> <<1>>,
                  motors |-> ms, cycler |-> c, stepNo |-> 0, uid |-> 0,
                  pos_cache |-> [m \in Devices |-> None], todo |-> <<>>]
    /\ NoEngine

\* no response is looked at: the caller answers the k-th message with k
NdResume ==
    /\ pc \in {"start", "yield"}
    /\ \E v \in (IF pc = "start" THEN {None} ELSE Responses) :
         Become(NdSend(IF pc = "start" THEN Cur
                       ELSE [Cur EXCEPT !.out[Len(out)].resp = v]))

NextNd == NdResume \/ ScriptThrown

SpecNd == InitNd /\ [][NextNd]_vars

(***************************************************************************)
(* simple_scans: the mid-level classes that turn SPEC's intervals into a   *)
(* number of points on the way to the scan class.                          *)
(***************************************************************************)
\* Python values of an argument list
Motor(i) == [t |-> "motor", v |-> i]
Num(n) == [t |-> "int", v |-> n]
PyFalse == [t |-> "bool", v |-> 0]

\* (motor, start, finish, intervals) for motors 1..n
QuadLists ==
    UNION {{[i \in 1..(4 * n) |->
               CASE i % 4 = 1 -> Motor((i + 3) \div 4)
                 [] i % 4 = 2 -> Num(0)
                 [] i % 4 = 3 -> Num(fin[(i + 3) \div 4])
                 [] OTHER     -> Num(ints[(i + 3) \div 4])]
             : fin \in [1..n -> 1..MaxFinish], ints \in [1..n -> 1..MaxIntervals]}
           : n \in 1..MaxQuads}

\* the loop of _OuterProductScan.__call__ from pass i on, n being the number
\* of chunks of the list as it was before the loop: args[4*i + 3] += 1, and
\* for i != 0 args.insert(4*(i + 1), False).  A bool is an int; a motor
\* has no + with an int
RECURSIVE Intervals2Points(_, _, _)
Intervals2Points(args, i, n) ==
    IF i = n THEN [err |-> NoFault, args |-> args]
    ELSE IF 4 * i + 4 > Len(args) THEN [err |-> "IndexError", args |-> args]
    ELSE IF args[4 * i + 4].t = "motor" THEN [err |-> "TypeError", args |-> args]
    ELSE LET a1 == [args EXCEPT ![4 * i + 4] = Num(@.v + 1)]
         IN  Intervals2Points(IF i # 0 THEN ListInsert(a1, 4 * (i + 1), PyFalse)
                              ELSE a1, i + 1, n)

\* _OuterProductScan.__call__(*args): a trailing time is popped off, the
\* loop runs, and the list goes to the scan class
OuterProductCall(args) ==
    LET a0 == IF Len(args) % 4 = 1 THEN Front(args) ELSE args
    IN  Intervals2Points(a0, 0, (Len(a0) + 3) \div 4)

\* the step-scan wrappers and the classes whose __call__ runs, in the order
\* super() goes through them
StepScans == {"AbsScan", "DeltaScan", "HScan", "KScan", "LScan",
              "AbsTemperatureScan", "DeltaTemperatureScan"}
CallChain(cls) ==
    CASE cls \in {"AbsScan", "DeltaScan"} -> <<"_StepScan", "_BundledScan">>
      [] cls \in {"HScan", "KScan", "LScan"} ->
            <<"_HardcodedMotorStepScan", "_BundledScan">>
      [] OTHER -> <<"_TemperatureScan", "_HardcodedMotorStepScan",
                    "_BundledScan">>

\* what the __call__ of the classes of chain hands on for `intervals`:
\* _StepScan, _HardcodedMotorStepScan and _TemperatureScan each pass
\* intervals + 1 to super().__call__; _BundledScan passes its arguments to
\* the scan class as they are
RECURSIVE PointsPassed(_, _)
PointsPassed(chain, intervals) ==
    IF chain = <<>> THEN intervals
    ELSE PointsPassed(Tail(chain),
                      IF chain[1] = "_BundledScan" THEN intervals
                      ELSE intervals + 1)

InitSimple ==
    /\ pc = "start"
    /\ gens = <<>>
    /\ \/ \E args \in QuadLists : \E time \in {<<>>, <<Num(1)>>} :
            frame = [fn |-> "_OuterProductScan", args |-> args \o time,
                     forwarded |-> <<>>]
       \/ \E cls \in StepScans : \E n \in 0..MaxIntervals :
            frame = [fn |-> cls, intervals |-> n, num |-> None]
    /\ NoEngine

\* scan(*args) for a scan of class _OuterProductScan, up to the call of
\* the scan class
OuterCalled ==
    /\ pc = "start"
    /\ frame.fn = "_OuterProductScan"
    /\ LET r == OuterProductCall(frame.args)
       IN  Become(IF r.err = NoFault
                    THEN [Cur EXCEPT !.pc = "returned",
                                     !.frame.forwarded = r.args]
                    ELSE [Cur EXCEPT !.pc = "raised", !.engErr = r.err])

\* scan(..., intervals) for a step-scan wrapper, up to the call of the scan
\* class
StepCalled ==
    /\ pc = "start"
    /\ frame.fn \in StepScans
    /\ Become([Cur EXCEPT !.pc = "returned",
                          !.frame.num = PointsPassed(CallChain(frame.fn),
                                                     frame.intervals)])

NextSimple == OuterCalled \/ StepCalled

SpecSimple == InitSimple /\ [][NextSimple]_vars


(***************************************************************************)
(* Vocabulary of the properties.                                           *)
(***************************************************************************)
Pos == 1..Len(out)
Gens == 1..Len(gens)
Repls == {g \in Gens : gens[g].kind = "repl"}
Tails == {g \in Gens : gens[g].kind = "tail"}
TailOf(p) == {t \in Tails : gens[t].pair = p}
Returned(g) == gens[g].st = "done"

\* positions at which the n-th message of generator g reached the caller
At(g, n) == {k \in Pos : out[k].src = g /\ out[k].idx = n}

\* replacements spliced for the n-th message of generator g
SplicedFor(g, n) == {q \in Repls : gens[q].owner = g /\ gens[q].ownerPos = n}

\* the value generator F was resumed with after its i-th message
ResumedAfter(F, i) == Len(gens[F].got) > i
ResumedWith(F, i) == gens[F].got[i + 1]

\* no fault was routed through the except Exception handler
Faultless == engErr = NoFault /\ swallowed = <<>>

\* g is a or was spliced, directly or not, for a message of a
RECURSIVE InTree(_, _)
InTree(g, a) ==
    IF g = a THEN TRUE
    ELSE IF g = Root THEN FALSE
    ELSE InTree(gens[g].owner, a)

\* C1: with a rewrite that declined every message so far and no fault, the
\* caller has seen exactly the root's messages in the root's order, and the
\* root has been resumed with None first and then with the caller's responses
\* in order, every response but the one still pending delivered.
C1_PassThrough ==
    (~spliced /\ Faultless) =>
        /\ Len(out) = Len(gens[Root].yielded)
        /\ \A k \in Pos : /\ out[k].msg = gens[Root].yielded[k]
                          /\ out[k].src = Root /\ out[k].idx = k
        /\ \A j \in 1..Len(gens[Root].got) :
               gens[Root].got[j] = IF j = 1 THEN None ELSE out[j - 1].resp
        /\ pc = "yield" => Len(gens[Root].got) = Len(out)
        /\ pc = "returned" => Len(gens[Root].got) = Len(out) + 1

C1_Witness ==
    /\ ~spliced /\ pc = "returned"
    /\ Len(out) >= 3
    /\ gens[Root].phase = "final"

\* C2 as claimed: when plan_mutator returns, its value is the root plan's
\* completion value.
C2_ReturnsRootValue ==
    pc = "returned" => engRet = RetVal(Root)

\* C3: for a replacement p spliced without a tail for the i-th message of
\* frame F, F is not resumed while p has not completed, and once p completed
\* F is resumed with the response the caller supplied for the last message
\* p yielded, which is neither None nor the return value of p.
C3_ReplacementResponse ==
    \A p \in Repls :
        LET F == gens[p].owner
            i == gens[p].ownerPos
            n == Len(gens[p].yielded)
        IN  TailOf(p) = {} =>
              /\ ~Returned(p) => Len(gens[F].got) = i
              /\ (Returned(p) /\ ResumedAfter(F, i)) =>
                    \A k \in At(p, n) :
                        /\ ResumedWith(F, i) = out[k].resp
                        /\ ResumedWith(F, i) # None
                        /\ ResumedWith(F, i) # RetVal(p)

C3_Witness ==
    \E p \in Repls :
        /\ TailOf(p) = {} /\ Returned(p)
        /\ At(p, Len(gens[p].yielded)) # {}
        /\ ResumedAfter(gens[p].owner, gens[p].ownerPos)

\* C4: for a replacement p spliced with a tail t for the i-th message of frame
\* F, F is not resumed before both completed, and is then resumed with the
\* response supplied for the last message of p: never with the return value of
\* t nor with a response supplied for a message of t.
C4_TailResponse ==
    \A p \in Repls : \A t \in TailOf(p) :
        LET F == gens[p].owner
            i == gens[p].ownerPos
            n == Len(gens[p].yielded)
        IN  /\ ~(Returned(p) /\ Returned(t)) => Len(gens[F].got) = i
            /\ (Returned(p) /\ Returned(t) /\ ResumedAfter(F, i)) =>
                  /\ \A k \in At(p, n) : ResumedWith(F, i) = out[k].resp
                  /\ ResumedWith(F, i) # RetVal(t)
                  /\ \A k \in Pos : InTree(out[k].src, t) =>
                                        ResumedWith(F, i) # out[k].resp

C4_Witness ==
    \E p \in Repls : \E t \in TailOf(p) :
        /\ Returned(p) /\ Returned(t)
        /\ At(p, Len(gens[p].yielded)) # {}
        /\ \E k \in Pos : out[k].src = t
        /\ ResumedAfter(gens[p].owner, gens[p].ownerPos)


\* C5: for a replacement or tail g spliced for the i-th message m of frame F:
\* m is never yielded on behalf of F; every message of F the caller saw before
\* a message of g is an earlier one than m and every one it saw after is a
\* later one; the messages of a tail come after all messages of its
\* replacement; and unless a fault dropped one, every message a generator
\* produced was either spliced or observed.
C5_SpliceOrder ==
    /\ \A g \in Repls \cup Tails :
         LET F == gens[g].owner
             i == gens[g].ownerPos
         IN  /\ At(F, i) = {}
             /\ \A a, b \in Pos :
                  (out[a].src = F /\ InTree(out[b].src, g)) =>
                      /\ a < b => out[a].idx < i
                      /\ b < a => out[a].idx > i
             /\ gens[g].kind = "tail" =>
                  \A b, c \in Pos :
                      (InTree(out[b].src, gens[g].pair) /\ InTree(out[c].src, g))
                          => b < c
    /\ (illegalMsg = 0 /\ swallowed = <<>>) =>
         \A g \in Gens : \A n \in 1..Len(gens[g].yielded) :
             At(g, n) # {} \/ SplicedFor(g, n) # {}

\* the replacement inserts a new message before the original one, a tail
\* follows, and the issuing frame goes on afterwards
C5_Witness ==
    \E p \in Repls : \E t \in TailOf(p) :
        LET F == gens[p].owner
            i == gens[p].ownerPos
        IN  \E a \in At(p, 1) : \E b \in At(p, 2) : \E c \in Pos :
            \E e \in At(F, i + 1) :
                /\ out[a].msg # gens[p].forMsg
                /\ out[b].msg = gens[p].forMsg
                /\ out[c].src = t
                /\ \E d \in Pos : out[d].src = F /\ out[d].idx < i

\* the responses supplied for the last message of p, followed through the
\* replacements spliced for that message
RECURSIVE LastResponses(_)
LastResponses(p) ==
    LET n == Len(gens[p].yielded)
    IN  IF n = 0 THEN {}
        ELSE {out[k].resp : k \in At(p, n)}
               \cup UNION {LastResponses(q) : q \in SplicedFor(p, n)}

Completed(p) == Returned(p) /\ \A t \in TailOf(p) : Returned(t)

\* nesting depth of a generator: the root is 0
RECURSIVE Depth(_)
Depth(g) == IF g = Root THEN 0 ELSE 1 + Depth(gens[g].owner)

\* C6: at every nesting depth, a frame F whose i-th message was spliced is not
\* resumed before the replacement and its tail completed, and is then resumed
\* with the response supplied for the last message of the replacement, where
\* a last message that was spliced again stands for the last message of its
\* own replacement.
C6_NestedRouting ==
    \A p \in Repls :
        LET F == gens[p].owner
            i == gens[p].ownerPos
        IN  /\ ~Completed(p) => Len(gens[F].got) = i
            /\ (Completed(p) /\ ResumedAfter(F, i)) =>
                  \A r \in LastResponses(p) : ResumedWith(F, i) = r

\* a replacement with a tail whose last message was spliced again, all
\* completed and the owner resumed
C6_Witness ==
    \E p \in Repls : \E t \in TailOf(p) :
        \E q \in SplicedFor(p, Len(gens[p].yielded)) :
            /\ Completed(p) /\ Completed(q)
            /\ Depth(q) = 2
            /\ LastResponses(q) # {}
            /\ \E k \in Pos : out[k].src = t
            /\ ResumedAfter(gens[p].owner, gens[p].ownerPos)

\* C7 as claimed: after the caller threw a fault in, whenever control is back
\* with the caller every message the root produced (its cleanup included) has
\* reached the caller, and the fault that finally propagates is the one
\* thrown in.
C7_CleanupThenFault ==
    (userThrew /\ pc # "loop") =>
        /\ \A n \in 1..Len(gens[Root].yielded) :
               At(Root, n) # {} \/ SplicedFor(Root, n) # {}
        /\ pc = "raised" => engErr = "UserFault"

\* C8: a fault raised by resuming a spliced frame is thrown into the root and
\* into no other generator; if the root does not react by yielding, that
\* fault is what plan_mutator raises.
C8_FaultToRoot ==
    /\ \A g \in Gens \ {Root} : gens[g].thrown = <<>>
    /\ (faultBy \notin {0, Root} /\ swallowed = <<>>) =>
          /\ pc = "raised"
          /\ engErr = "PlanFault"
          /\ gens[Root].thrown = <<"PlanFault">>

\* a frame raised while two spliced frames were on the stack
C8_Witness ==
    /\ faultBy \notin {0, Root}
    /\ Len(plan_stack) >= 3
    /\ faultBy = Last(plan_stack)
    /\ pc = "raised" /\ engErr = "PlanFault"

\* C9 as claimed: once the engine is closed the root plan is closed too.
C9_CloseClosesRoot ==
    pc = "closed" => gens[Root].st \in {"closed", "done", "raised"}

\* C10 as claimed: once msg_proc returned (None, tail) for a message, control
\* comes back to the caller only as a RuntimeError, and neither that message
\* nor a later one was yielded.
C10_IllegalTailRaises ==
    (illegalMsg # 0 /\ pc # "loop") =>
        /\ pc = "raised" /\ engErr = "RuntimeError"
        /\ \A k \in Pos : out[k].msg < illegalMsg

\* places (g, n) at which generator g produced, as its n-th message, an
\* instance produced before: the message it was made for, or its own last one
Reproduced ==
    {gn \in Gens \X (1..MaxYield + MaxCleanup) :
        /\ gn[2] <= Len(gens[gn[1]].yielded)
        /\ \/ gens[gn[1]].yielded[gn[2]] = gens[gn[1]].forMsg
           \/ gn[2] > 1 /\ gens[gn[1]].yielded[gn[2]] = gens[gn[1]].yielded[gn[2] - 1]}

\* the message instances that reached the engine from plan_stack[-1].send
Received == {m \in 1..Len(msgs) : \A i \in 1..Len(swallowed) : swallowed[i] # m}

\* C11: msg_proc is applied at most once to a message instance, and an
\* instance that is produced again is yielded to the caller as it is.
C11_RewrittenOnce ==
    /\ \A m \in 1..Len(msgs) : msgs[m].procd <= 1
    /\ \A gn \in Reproduced :
          \E k \in At(gn[1], gn[2]) : out[k].msg = gens[gn[1]].yielded[gn[2]]

\* a replacement yielded the message it replaces, after msg_proc had had it
C11_Witness ==
    \E gn \in Reproduced :
        /\ gens[gn[1]].kind = "repl"
        /\ gens[gn[1]].yielded[gn[2]] = gens[gn[1]].forMsg
        /\ msgs[gens[gn[1]].forMsg].procd = 1
        /\ At(gn[1], gn[2]) # {}

OnceAt(g, n, k) ==
    /\ At(g, n) = {k}
    /\ out[k].msg = gens[g].yielded[n]

\* sub-plan g was resumed with None first and then with the caller's
\* responses to its own messages, the first of which is at position k0 + 1
AnsweredFrom(g, k0) ==
    \A j \in 1..Len(gens[g].got) :
        gens[g].got[j] = IF j = 1 THEN None ELSE out[k0 + j - 1].resp

\* the fault that ended the plan: the one thrown in, or its own
PlanFaultOf(g) ==
    IF gens[g].thrown # <<>> THEN Last(gens[g].thrown) ELSE "PlanFault"

\* C13: after the plan under finalize raised (by itself or because the caller
\* threw at one of its yields), final_plan is started, each of its messages
\* reaches the caller once, after the plan's messages; the caller gets the
\* fault only when final_plan has ended, and then it is the plan's fault.
C13_FinalizeOnFault ==
    /\ gens[2].st # "fresh" => gens[1].st \in {"done", "raised"}
    /\ (gens[1].st = "raised" /\ gens[2].thrown = <<>>) =>
          /\ pc \in {"yield", "raised"}
          /\ Len(out) = Len(gens[1].yielded) + Len(gens[2].yielded)
          /\ \A n \in 1..Len(gens[2].yielded) :
                 OnceAt(2, n, Len(gens[1].yielded) + n)
          /\ pc = "yield" => gens[2].st = "susp"
          /\ pc = "raised" => gens[2].st \in {"done", "raised"}
          /\ (pc = "raised" /\ Returned(2)) => engErr = PlanFaultOf(1)

\* the plan raised after two messages, one cleanup message followed, then
\* the fault
C13_Witness ==
    /\ gens[1].st = "raised" /\ gens[1].thrown = <<>>
    /\ Len(gens[1].yielded) = 2
    /\ Len(gens[2].yielded) = 1 /\ Returned(2)
    /\ out[3].src = 2
    /\ pc = "raised" /\ engErr = "PlanFault"

\* C14: when the plan under finalize returns r, the caller sees the plan's
\* messages, then final_plan's; each sub-plan is resumed with the responses
\* to its own messages; finalize returns r.
C14_FinalizeReturns ==
    (Returned(1) /\ gens[2].thrown = <<>> /\ gens[2].st # "raised") =>
        /\ pc \in {"yield", "returned"}
        /\ Len(out) = Len(gens[1].yielded) + Len(gens[2].yielded)
        /\ \A n \in 1..Len(gens[1].yielded) : OnceAt(1, n, n)
        /\ \A n \in 1..Len(gens[2].yielded) :
               OnceAt(2, n, Len(gens[1].yielded) + n)
        /\ AnsweredFrom(1, 0) /\ Len(gens[1].got) = Len(gens[1].yielded) + 1
        /\ AnsweredFrom(2, Len(gens[1].yielded))
        /\ pc = "yield" =>
               gens[2].st = "susp" /\ Len(gens[2].got) = Len(gens[2].yielded)
        /\ pc = "returned" =>
               /\ Returned(2) /\ Len(gens[2].got) = Len(gens[2].yielded) + 1
               /\ engRet = RetVal(1)

\* both sub-plans yielded and returned
C14_Witness ==
    /\ pc = "returned" /\ engRet = RetVal(1)
    /\ Len(gens[1].yielded) = 2 /\ Len(gens[2].yielded) = 2
    /\ gens[2].got = <<None, 3, 4>>

RECURSIVE YieldedBefore(_)
\* the number of messages yielded by the plans before plan i
YieldedBefore(i) ==
    IF i <= 1 THEN 0 ELSE YieldedBefore(i - 1) + Len(gens[i - 1].yielded)

\* C15: the caller of bschain(p1, ..., pn) sees the messages of p1, then of
\* p2, and so on; each plan is resumed with the responses to its own
\* messages; a plan is started only when the one before it has returned;
\* bschain returns the tuple of the plans' return values in order.
C15_ChainInOrder ==
    /\ Len(out) = YieldedBefore(Len(gens) + 1)
    /\ \A i \in Gens :
          /\ \A n \in 1..Len(gens[i].yielded) : OnceAt(i, n, YieldedBefore(i) + n)
          /\ AnsweredFrom(i, YieldedBefore(i))
          /\ (i > 1 /\ gens[i].st # "fresh") => Returned(i - 1)
    /\ pc = "returned" =>
          /\ \A i \in Gens : Returned(i)
          /\ engRet = [i \in Gens |-> RetVal(i)]

\* three plans, each with a message, ran to the end
C15_Witness ==
    /\ pc = "returned"
    /\ Len(gens) = 3
    /\ \A i \in Gens : Len(gens[i].yielded) >= 1 /\ Len(gens[i].got) >= 2
    /\ engRet = <<RetVal(1), RetVal(2), RetVal(3)>>

\* C16: a message of the plan for which msg_proc gave None never reaches the
\* caller and the plan is resumed with None at once; for any other message
\* the caller gets exactly what msg_proc gave, once, and its response is
\* what the plan is resumed with; the caller sees them in the plan's order.
C16_SuppressOrForward ==
    /\ Len(frame.fx) = Len(gens[1].yielded)
    /\ Len(out) = Cardinality({n \in 1..Len(frame.fx) : frame.fx[n] # None})
    /\ \A n \in 1..Len(frame.fx) :
          IF frame.fx[n] = None
            THEN /\ At(1, n) = {}
                 /\ ResumedAfter(1, n) /\ ResumedWith(1, n) = None
            ELSE /\ \E k \in Pos :
                       /\ At(1, n) = {k}
                       /\ out[k].msg = frame.fx[n]
                       /\ ResumedAfter(1, n) <=> out[k].resp # Unanswered
                       /\ ResumedAfter(1, n) => ResumedWith(1, n) = out[k].resp
                 /\ \A n2 \in (n + 1)..Len(frame.fx) :
                       \A k \in At(1, n) : \A k2 \in At(1, n2) : k < k2

\* a message was forwarded and answered, the next one suppressed, a third
\* one replaced by a message msg_proc made
C16_Witness ==
    /\ Len(frame.fx) >= 3
    /\ frame.fx[1] = gens[1].yielded[1]
    /\ frame.fx[2] = None
    /\ frame.fx[3] \notin {None, gens[1].yielded[3]}
    /\ gens[1].got[2] = 1 /\ gens[1].got[3] = None
    /\ Len(out) = 2 /\ out[2].msg = frame.fx[3]

\* positions of the caller's trace holding Msg(cmd, r)
CmdAt(cmd, r) ==
    {k \in Pos : msgs[out[k].msg].cmd = cmd /\ msgs[out[k].msg].obj = r}

\* positions of the caller's trace holding a message of the wrapped plan
OwnAt == {k \in Pos : \E n \in 1..Len(gens[Root].yielded) :
                          gens[Root].yielded[n] = out[k].msg}

\* the wrapped plan's messages reached the caller in the plan's order, none
\* left out but possibly the one it is at
OwnInOrder ==
    /\ \A n \in 1..Len(gens[Root].yielded) - 1 :
          \E k \in Pos : out[k].msg = gens[Root].yielded[n]
    /\ \A k1, k2 \in OwnAt : k1 < k2 => out[k1].msg < out[k2].msg

\* C17 as claimed: whenever the caller has control, each root that a message
\* of the plan targets has had exactly one 'stage', a 'stage' is followed by
\* the first message of the plan with that root, a message without target
\* is not preceded by a 'stage', and the plan's messages come in order.
C17_StageOncePerRoot ==
    pc # "loop" =>
        /\ \A n \in 1..Len(gens[Root].yielded) :
              LET obj == msgs[gens[Root].yielded[n]].obj
              IN  obj # None => Cardinality(CmdAt("stage", RootOf(obj))) = 1
        /\ \A r \in Devices : \A k \in CmdAt("stage", r) :
              k < Len(out) =>
                  /\ k + 1 \in OwnAt
                  /\ msgs[out[k + 1].msg].obj # None
                  /\ RootOf(msgs[out[k + 1].msg].obj) = r
                  /\ \A j \in OwnAt : j < k => msgs[out[j].msg].obj = None
                                              \/ RootOf(msgs[out[j].msg].obj) # r
        /\ \A k \in OwnAt :
              (msgs[out[k].msg].obj = None /\ k > 1) =>
                  msgs[out[k - 1].msg].cmd # "stage"
        /\ OwnInOrder

\* C18 as claimed: an 'unstage' reaches the caller only after the plan has
\* ended, at most one per root and only for a root whose 'stage' reached the
\* caller; when stage_wrapper ends every such root has had its 'unstage'.
C18_UnstageWhatWasStaged ==
    pc # "loop" =>
        /\ \A r \in Devices :
              /\ Cardinality(CmdAt("unstage", r)) <= 1
              /\ CmdAt("unstage", r) # {} =>
                    /\ CmdAt("stage", r) # {}
                    /\ gens[Root].st \in {"done", "raised", "closed"}
        /\ (pc \in {"returned", "raised"} /\ gens[2].thrown = <<>>) =>
              \A r \in Devices :
                  CmdAt("stage", r) # {} => CmdAt("unstage", r) # {}

\* C19 as claimed: whenever the caller has control, no root has had more
\* than one 'stage'; a 'stage' is followed by a read, set, trigger or kickoff
\* of the plan whose target has that root; every such message of the plan
\* comes after the 'stage' of its root; no other message of the plan comes
\* right after a 'stage'.
C19_LazyStageOncePerRoot ==
    pc # "loop" =>
        /\ \A r \in Devices : Cardinality(CmdAt("stage", r)) <= 1
        /\ \A r \in Devices : \A k \in CmdAt("stage", r) :
              k < Len(out) =>
                  /\ k + 1 \in OwnAt
                  /\ msgs[out[k + 1].msg].cmd \in COMMANDS
                  /\ RootOf(msgs[out[k + 1].msg].obj) = r
        /\ \A k \in OwnAt :
              IF msgs[out[k].msg].cmd \in COMMANDS
                THEN \E j \in CmdAt("stage", RootOf(msgs[out[k].msg].obj)) : j < k
                ELSE k > 1 => msgs[out[k - 1].msg].cmd # "stage"

\* C20 as claimed: when lazily_stage has returned, the caller has had one
\* 'unstage' for every 'stage'.
C20_LazyUnstages ==
    pc = "returned" =>
        \A r \in Devices :
            Cardinality(CmdAt("unstage", r)) = Cardinality(CmdAt("stage", r))

\* the command of the message at position k of the caller's trace
CmdOf(k) == msgs[out[k].msg].cmd

\* the caller's trace may end at position k or before: the caller has not
\* gone on, or the plan or the caller raised a fault
MayEndBy(k) ==
    k >= Len(out) /\ (pc = "yield" \/ (pc = "raised" /\
                                        engErr \in {"PlanFault", "UserFault"}))

\* C21 as claimed: with flyers, whenever the caller has control each
\* 'open_run' in its trace is followed by the kickoff messages in list
\* order, each 'close_run' is preceded by the wait and the collect messages
\* in list order, kickoffs and wait carry the same group token, nothing is
\* inserted elsewhere, and the plan's messages come unchanged and in order.
C21_FlyBrackets ==
    (pc # "loop" /\ frame.kickoff_msgs # <<>>) =>
        LET nf == Len(frame.kickoff_msgs)
        IN  /\ \A k \in Pos : CmdOf(k) = "open_run" =>
                  \A i \in 1..nf :
                      \/ k + i <= Len(out)
                           /\ out[k + i].msg = frame.kickoff_msgs[i]
                      \/ MayEndBy(k + i - 1)
            /\ \A k \in Pos : CmdOf(k) = "close_run" =>
                  /\ k > nf + 1
                  /\ \A i \in 1..nf + 1 :
                        out[k - nf - 2 + i].msg = frame.collect_msgs[i]
            /\ \A k \in Pos :
                  /\ CmdOf(k) = "kickoff" =>
                        /\ msgs[out[k].msg].arg = Grp
                        /\ k > msgs[out[k].msg].obj
                        /\ CmdOf(k - msgs[out[k].msg].obj) = "open_run"
                  /\ CmdOf(k) = "wait" => msgs[out[k].msg].arg = Grp
                  /\ CmdOf(k) \in {"wait", "collect"} =>
                        \/ \E j \in (k + 1)..Len(out) :
                              /\ CmdOf(j) = "close_run"
                              /\ j - k <= nf + 1
                        \/ MayEndBy(k + nf + 1)
            /\ OwnInOrder
            /\ pc = "returned" => Len(gens[Root].yielded) = Cardinality(OwnAt)

\* C30: the plan under fly_during is resumed after a message of its own, an
\* 'open_run' or a 'close_run' in particular, with what the caller answered
\* to that very message, whatever it answered to the inserted messages.
C30_FlyResponses ==
    \A n \in 1..Len(gens[Root].yielded) :
        ResumedAfter(Root, n) =>
            \E k \in Pos : /\ out[k].msg = gens[Root].yielded[n]
                           /\ ResumedWith(Root, n) = out[k].resp

\* a run with two flyers: the plan got the answers to its open_run and
\* close_run, which differ from the answers to the inserted messages
C30_Witness ==
    /\ pc = "returned"
    /\ Len(frame.kickoff_msgs) = 2
    /\ Len(gens[Root].yielded) = 2
    /\ msgs[gens[Root].yielded[1]].cmd = "open_run"
    /\ msgs[gens[Root].yielded[2]].cmd = "close_run"
    /\ Len(out) = 7
    /\ gens[Root].got = <<None, 1, 7>>
    /\ \A k \in 2..6 : out[k].resp = None


\* the positions of the trace with a message of command cmd
CmdPos(cmd) == {k \in Pos : msgs[out[k].msg].cmd = cmd}

\* C22: subscription_wrapper yields one 'subscribe' per (name, func) pair
\* before any other message; once the plan has returned or raised and
\* unsubscribe() has run to its end, exactly one 'unsubscribe' was yielded for
\* each distinct token the caller answered a 'subscribe' with, after the
\* plan's messages and for no other value.
C22_SubscribeBrackets ==
    LET n == gens[1].arg
        answered == {out[i].resp : i \in 1..n}
    IN  /\ \A k \in Pos :
              IF k <= n
                THEN /\ out[k].src = 1
                     /\ msgs[out[k].msg].cmd = "subscribe"
                     /\ msgs[out[k].msg].arg = k
                ELSE /\ out[k].src \in {2, 3}
                     /\ msgs[out[k].msg].cmd # "subscribe"
        /\ \A k \in Pos : out[k].src = 3 =>
              /\ msgs[out[k].msg].cmd = "unsubscribe"
              /\ gens[2].st \in {"done", "raised"}
              /\ \A j \in Pos : out[j].src = 2 => j < k
        /\ (/\ pc \in {"returned", "raised"}
            /\ gens[2].st \in {"done", "raised"}
            /\ gens[3].thrown = <<>>) =>
              /\ Len(out) >= n
              /\ {msgs[out[k].msg].arg : k \in CmdPos("unsubscribe")} = answered
              /\ Cardinality(CmdPos("unsubscribe")) = Cardinality(answered)
              /\ pc = "raised" <=> gens[2].st = "raised"

\* two pairs subscribed and both answered with token 1, the plan raised
\* after one message, one 'unsubscribe' of token 1 followed, then the fault
C22_Witness ==
    /\ pc = "raised" /\ engErr = "PlanFault"
    /\ gens[1].arg = 2 /\ Len(out) = 4
    /\ out[1].resp = 1 /\ out[2].resp = 1
    /\ out[3].src = 2 /\ gens[2].st = "raised"
    /\ msgs[out[4].msg].cmd = "unsubscribe" /\ msgs[out[4].msg].arg = 1


\* C23: run_wrapper yields its one 'open_run' first and, when the plan has
\* returned, its one 'close_run' last; in between the caller gets the plan's
\* messages as the plan yielded them, in order, and the plan is resumed with
\* the responses to its own messages.  The generators collected in an
\* event_context are bracketed by 'create' and 'save' in the same way.
C23_RunBrackets ==
    LET last == Len(gens)
        plans == 2..(last - 1)
    IN  /\ Len(out) = YieldedBefore(last + 1)
        /\ \A i \in Gens :
              /\ \A n \in 1..Len(gens[i].yielded) :
                     OnceAt(i, n, YieldedBefore(i) + n)
              /\ (i > 1 /\ gens[i].st # "fresh") => Returned(i - 1)
        /\ \A i \in plans : AnsweredFrom(i, YieldedBefore(i))
        /\ \A k \in Pos :
              /\ out[k].src = 1 =>
                    k = 1 /\ msgs[out[k].msg].cmd = Bracket(frame.fn)[1]
              /\ out[k].src = last =>
                    /\ k = Len(out)
                    /\ msgs[out[k].msg].cmd = Bracket(frame.fn)[2]
              /\ out[k].src \in plans =>
                    msgs[out[k].msg].cmd \notin {"open_run", "close_run",
                                                 "create", "save"}
        /\ out # <<>> => out[1].src = 1
        /\ pc = "returned" =>
              /\ \A i \in Gens : Returned(i)
              /\ out[1].src = 1 /\ out[Len(out)].src = last /\ Len(out) >= 2
              /\ Cardinality({k \in Pos : out[k].src \notin plans}) = 2

\* run_wrapper over a plan of two messages ran to its end: open_run, the two
\* messages, close_run, and the plan was resumed with the responses 2 and 3
C23_Witness ==
    /\ pc = "returned" /\ frame.fn = "run_wrapper"
    /\ Len(out) = 4
    /\ msgs[out[1].msg].cmd = "open_run" /\ msgs[out[4].msg].cmd = "close_run"
    /\ out[2].src = 2 /\ out[3].src = 2
    /\ gens[2].got = <<None, 2, 3>>
    /\ engRet = <<None, RetVal(2), None>>


\* what f makes of the first k messages of the plan: the dict, the devices
\* queried so far in order, and the messages to yield
RECURSIVE RelExpected(_)
RelExpected(k) ==
    IF k = 0
      THEN [ip |-> EmptyDict, queried |-> <<>>, new_msgs |-> <<>>]
      ELSE LET e == RelExpected(k - 1)
               r == RelF(e.ip, frame.devices, gens[1].arg[k])
           IN  [ip |-> r.ip, queried |-> e.queried \o r.queried,
                new_msgs |-> Append(e.new_msgs, r.new_msg)]

\* C24: when relative_set over a plan that does not fault has ended, it has
\* returned, the caller has seen one message per message of the plan, each
\* 'set' on a selected device with initial position + relative value as its
\* argument and every other message unchanged, and the position of each
\* selected device that was set has been queried exactly once.
C24_RelativeSet ==
    (pc \in {"returned", "raised"} /\ gens[1].st # "raised") =>
        LET e == RelExpected(Len(gens[1].arg))
        IN  /\ pc = "returned"
            /\ Len(out) = Len(gens[1].arg)
            /\ \A k \in Pos :
                  /\ msgs[out[k].msg].cmd = e.new_msgs[k].cmd
                  /\ msgs[out[k].msg].obj = e.new_msgs[k].obj
                  /\ msgs[out[k].msg].arg = e.new_msgs[k].arg
            /\ frame.queried = e.queried


\* the engine is in its loop or suspended at its yield
Running == pc \in {"loop", "yield"}

\* C25: while plan_mutator runs, plan_stack is not empty and the root plan is
\* its bottom element; a generator is sent a value only while it is the top
\* of the stack, and a message that reaches the caller is the top's; the
\* root leaves the stack only by returning, and then the stack is empty and
\* the engine returns.
C25_TopOfStack ==
    /\ [](Running => /\ plan_stack # <<>>
                     /\ plan_stack[1] = Root
                     /\ \A i \in 2..Len(plan_stack) : plan_stack[i] # Root)
    /\ [](pc = "yield" => out[Len(out)].src = Last(plan_stack))
    /\ [][\A g \in DOMAIN gens :
             Len(gens'[g].got) > Len(gens[g].got) =>
                 plan_stack # <<>> /\ g = Last(plan_stack)]_vars
    /\ [][(plan_stack # <<>> /\ (plan_stack' = <<>> \/ plan_stack'[1] # Root)) =>
             /\ plan_stack = <<Root>>
             /\ plan_stack' = <<>>
             /\ gens'[Root].st = "done"
             /\ pc' = "returned"]_vars

\* the engine returned after a replacement and its tail had been on the
\* stack above the root and the root had gone on after them
C25_Witness ==
    /\ pc = "returned" /\ plan_stack = <<>>
    /\ Returned(Root) /\ Len(gens[Root].yielded) = 2
    /\ \E q \in Repls : /\ gens[q].owner = Root /\ gens[q].ownerPos = 1
                        /\ Returned(q) /\ gens[q].yielded # <<>>
                        /\ \E t \in TailOf(q) : Returned(t)


\* the generators on the stack
OnStack == {plan_stack[i] : i \in 1..Len(plan_stack)}

\* C26: a tail binding is pending exactly while the replacement it is keyed
\* to is on the stack, and an override exactly while its tail is on the
\* stack.  The binding goes when its replacement returns as the top of the
\* stack, and in that step its tail, if any, is pushed with the override
\* recorded; a tail is never started before that and is on the stack at most
\* once; the override goes when its tail returns as the top of the stack.
\* When the engine has returned no binding and no override is left and every
\* tail has run to its end.
C26_TailBindings ==
    /\ [](Running =>
            /\ DOMAIN tail_cache = OnStack \cap Repls
            /\ DOMAIN tail_result_cache = OnStack \cap Tails
            /\ \A i, j \in 1..Len(plan_stack) :
                   plan_stack[i] = plan_stack[j] => i = j
            /\ \A q \in DOMAIN tail_cache :
                   tail_cache[q] # None =>
                       /\ tail_cache[q] \in TailOf(q)
                       /\ gens[tail_cache[q]].st = "fresh"
                       /\ tail_cache[q] \notin OnStack
            /\ \A t \in Tails :
                   gens[t].st # "fresh" =>
                       Returned(gens[t].pair) /\ gens[t].pair \notin OnStack)
    /\ [](pc = "returned" =>
            /\ tail_cache = EmptyDict /\ tail_result_cache = EmptyDict
            /\ \A t \in Tails : Returned(t) /\ Returned(gens[t].pair))
    /\ [][\A q \in DOMAIN tail_cache :
             q \notin DOMAIN tail_cache' =>
                 /\ q = Last(plan_stack) /\ gens'[q].st = "done"
                 /\ IF tail_cache[q] # None
                      THEN /\ plan_stack' =
                                Append(Front(plan_stack), tail_cache[q])
                           /\ tail_cache[q] \in DOMAIN tail_result_cache'
                      ELSE plan_stack' = Front(plan_stack)]_vars
    /\ [][\A t \in DOMAIN tail_result_cache :
             t \notin DOMAIN tail_result_cache' =>
                 /\ t = Last(plan_stack) /\ gens'[t].st = "done"
                 /\ plan_stack' = Front(plan_stack)
                 /\ result_stack' # <<>>
                 /\ Last(result_stack') = tail_result_cache[t]]_vars
    /\ [][/\ \A q \in DOMAIN tail_cache' \ DOMAIN tail_cache :
                 q \notin DOMAIN gens
          /\ \A t \in DOMAIN tail_result_cache' \ DOMAIN tail_result_cache :
                 gens[t].st = "fresh"]_vars

\* the engine returned with both caches empty after two replacements, one
\* with a tail that yielded and one without
C26_Witness ==
    /\ pc = "returned"
    /\ tail_cache = EmptyDict /\ tail_result_cache = EmptyDict
    /\ \E t \in Tails : Returned(t) /\ gens[t].yielded # <<>>
    /\ \E q \in Repls : TailOf(q) = {} /\ Returned(q)


\* positions of the 'set' messages on the count_time of device d with
\* argument t, and of the plan's messages that target d
SetsOf(d, t) ==
    {k \in Pos : /\ msgs[out[k].msg].cmd = "set"
                 /\ msgs[out[k].msg].obj = CountTimeOf(d)
                 /\ msgs[out[k].msg].arg = t}
Targeting(d) == {k \in Pos : out[k].src = Root /\ msgs[out[k].msg].obj = d}

\* C27: for every device with a count_time there is at most one 'set' of it
\* to the given time, it precedes every message of the plan that targets the
\* device, and there is one whenever such a message reached the caller; no
\* restoring 'set' comes before the plan has ended, and once
\* configure_count_time has ended without having been thrown into during
\* its restoring loop, each device that was set has exactly one 'set' back to
\* its original time, after the plan's messages, and no other device has one.
C27_CountTime ==
    /\ \A k \in Pos :
          out[k].src = Root \/ \E d \in Devices :
              HasCountTime(d) /\ k \in SetsOf(d, TimeArg) \cup SetsOf(d, OrigTime(d))
    /\ \A n \in 1..Len(gens[Root].yielded) :
          At(Root, n) # {} => out[CHOOSE k \in At(Root, n) : TRUE].msg =
                                 gens[Root].yielded[n]
    /\ \A d \in Devices :
          /\ Cardinality(SetsOf(d, TimeArg)) <= 1
          /\ Cardinality(SetsOf(d, OrigTime(d))) <= 1
          /\ ~HasCountTime(d) => SetsOf(d, TimeArg) \cup SetsOf(d, OrigTime(d)) = {}
          /\ \A k \in Targeting(d) :
                HasCountTime(d) => \E j \in SetsOf(d, TimeArg) : j < k
          /\ \A j \in SetsOf(d, TimeArg) :
                \E n \in 1..Len(gens[Root].yielded) :
                    /\ msgs[gens[Root].yielded[n]].obj = d
                    /\ \A k \in At(Root, n) : j < k
          /\ \A j \in SetsOf(d, OrigTime(d)) :
                /\ gens[Root].st \in {"done", "raised"} \/ userThrew
                /\ SetsOf(d, TimeArg) # {}
                /\ \A k \in Pos : (out[k].src = Root \/ k \in SetsOf(d, TimeArg))
                                     => k < j
          /\ (pc \in {"returned", "raised"} /\ frame.pending # "abandoned") =>
                (SetsOf(d, OrigTime(d)) # {} <=> SetsOf(d, TimeArg) # {})

\* the plan read device 1 twice and device 2 once and then raised: one set
\* of each count_time before the first read of its device, and after the
\* plan's last message the two restoring sets, then the plan's fault
C27_Witness ==
    /\ pc = "raised" /\ engErr = "PlanFault" /\ Len(out) = 7
    /\ SetsOf(1, TimeArg) = {1} /\ Targeting(1) = {2, 3}
    /\ SetsOf(2, TimeArg) = {4} /\ Targeting(2) = {5}
    /\ SetsOf(1, OrigTime(1)) \cup SetsOf(2, OrigTime(2)) = {6, 7}
    /\ gens[Root].got = <<None, 2, 3, 5>>


\* n values are k whole groups of size each after the first lead values
Grouped(n, lead, each) == \E k \in 0..n : n = lead + k * each

\* an argument list that is not of the documented pattern: (motor, start,
\* stop) triples; 4 values for the first motor and 5 for each further one;
\* triples and one interval count
Malformed(fn, args) ==
    CASE fn \in {"inner_product_scan", "relative_inner_product_scan"} ->
           ~Grouped(Len(args), 0, 3)
      [] fn \in {"outer_product_scan", "relative_outer_product_scan"} ->
           ~Grouped(Len(args), 4, 5)
      [] OTHER -> ~Grouped(Len(args), 1, 3)

\* C28: a scan given a malformed argument list ends its first step with
\* ValueError, and no message has been yielded.
C28_MalformedRejected ==
    (pc # "start" /\ frame.fn \in Scans /\ Malformed(frame.fn, frame.args)) =>
        pc = "raised" /\ engErr = "ValueError" /\ out = <<>>

\* outer_product_scan given five values (one too many for one motor, four
\* too few for two) was rejected
C28_Witness ==
    /\ frame.fn = "outer_product_scan" /\ Len(frame.args) = 5
    /\ pc = "raised" /\ engErr = "ValueError" /\ out = <<>>


\* the message at position k of the trace
MsgAt(k) == msgs[out[k].msg]

\* the devices of list l, each once, in the order of their first occurrence
Firsts(l) == {i \in 1..Len(l) : \A j \in 1..(i - 1) : l[j] # l[i]}

\* C31: the caller of trigger_and_read sees triggers, then at most one
\* wait, then reads: every trigger is on a device with a trigger method,
\* no two on the same device, all with one token, which the wait names; no
\* two reads are on the same device and the reads follow the order of the
\* list; when the generator has returned every distinct device with a
\* trigger method was triggered, there was exactly one wait, and every
\* distinct device was read.
C31_TriggerWaitRead ==
    LET T == CmdPos("trigger")
        W == CmdPos("wait")
        R == CmdPos("read")
        l == frame.devices
    IN  /\ Pos = T \cup W \cup R
        /\ \A t \in T : \A w \in W : t < w
        /\ \A w \in W : \A r \in R : w < r
        /\ R # {} => W # {}
        /\ Cardinality(W) <= 1
        /\ \A t \in T : /\ HasTrigger(MsgAt(t).obj)
                        /\ MsgAt(t).grp # NoGroup
                        /\ \A u \in T : MsgAt(u).grp = MsgAt(t).grp
                        /\ \A w \in W : MsgAt(w).arg = MsgAt(t).grp
                        /\ \A u \in T : MsgAt(u).obj = MsgAt(t).obj => u = t
        /\ \A r \in R : \A q \in R :
              /\ MsgAt(q).obj = MsgAt(r).obj => q = r
              /\ q < r =>
                   \E i, j \in Firsts(l) : /\ i < j /\ l[i] = MsgAt(q).obj
                                           /\ l[j] = MsgAt(r).obj
        /\ pc = "returned" =>
              /\ Cardinality(W) = 1
              /\ {MsgAt(t).obj : t \in T} =
                    {l[i] : i \in {j \in 1..Len(l) : HasTrigger(l[j])}}
              /\ {MsgAt(r).obj : r \in R} = {l[i] : i \in 1..Len(l)}

\* devices <<2, 3, 2>>, 3 without a trigger method: trigger(2), wait,
\* read(2), read(3)
C31_Witness ==
    /\ pc = "returned" /\ frame.devices = <<2, 3, 2>> /\ Len(out) = 4
    /\ MsgAt(1).cmd = "trigger" /\ MsgAt(1).obj = 2
    /\ MsgAt(2).cmd = "wait" /\ MsgAt(2).arg = MsgAt(1).grp
    /\ MsgAt(3).cmd = "read" /\ MsgAt(3).obj = 2
    /\ MsgAt(4).cmd = "read" /\ MsgAt(4).obj = 3


\* C32: every 'set' of adaptive_scan's loop is followed by a 'wait', it
\* carries a group token, and that 'wait' names this token.
C32_SetWaitShareGroup ==
    \A k \in CmdPos("set") :
        /\ MsgAt(k).grp # NoGroup
        /\ (k + 1) \in DOMAIN out =>
              MsgAt(k + 1).cmd = "wait" /\ MsgAt(k + 1).arg = MsgAt(k).grp


\* the messages _nd_step_scan_core is to yield for steps i.. of cycler c,
\* written from the cycler alone: a motor is moved in the first step, and in
\* a later step when its position differs from the one of the step before
RECURSIVE NdExpected(_, _, _, _)
NdExpected(dets, ms, c, i) ==
    IF i > Len(c) THEN <<>>
    ELSE LET moved == {j \in 1..Len(ms) : i = 1 \/ c[i][ms[j]] # c[i - 1][ms[j]]}
             RECURSIVE moves(_)
             moves(j) == IF j > Len(ms) THEN <<>>
                         ELSE (IF j \in moved
                                 THEN << <<"set", ms[j], c[i][ms[j]]>>,
                                         <<"wait", None, "own">> >>
                                 ELSE <<>>) \o moves(j + 1)
             tr == TriggerAndRead(dets \o ms, "trigger")
         IN  << <<"checkpoint", None, None>> >> \o moves(1)
               \o [k \in 1..Len(tr) |-> <<tr[k].cmd, tr[k].obj, "any">>]
               \o NdExpected(dets, ms, c, i + 1)

\* C33: each step starts with a 'checkpoint'; then come a 'set' immediately
\* followed by a 'wait' on that set's own group for exactly the motors whose
\* position differs from the cached one, then the triggers and reads; once
\* the moves of a step are done the cache maps every motor of the step to
\* the step's position; the first step moves every motor.
C33_NdStep ==
    frame.fn = "_nd_step_scan_core" =>
      LET f   == frame
          exp == NdExpected(f.detectors, f.motors, f.cycler, 1)
          ms  == {f.motors[j] : j \in 1..Len(f.motors)}
      IN  /\ Len(out) <= Len(exp)
          /\ \A k \in Pos :
               /\ MsgAt(k).cmd = exp[k][1]
               /\ MsgAt(k).obj = exp[k][2]
               /\ MsgAt(k).cmd = "set" =>
                    /\ MsgAt(k).arg = exp[k][3]
                    /\ MsgAt(k).grp # NoGroup
                    /\ \A j \in Pos : j # k /\ MsgAt(j).cmd = "set"
                                        => MsgAt(j).grp # MsgAt(k).grp
                    /\ (k + 1) \in Pos =>
                          /\ MsgAt(k + 1).cmd = "wait"
                          /\ MsgAt(k + 1).arg = MsgAt(k).grp
               /\ (MsgAt(k).cmd = "wait" /\ MsgAt(k).arg # "trigger") =>
                    k > 1 /\ MsgAt(k - 1).cmd = "set"
                          /\ MsgAt(k - 1).grp = MsgAt(k).arg
          \* a 'set' is yielded only for a motor that is not at the position
          /\ (pc = "yield" /\ MsgAt(Len(out)).cmd = "set") =>
                f.pos_cache[MsgAt(Len(out)).obj] # MsgAt(Len(out)).arg
          \* the moves of the step are done
          /\ (pc = "yield" /\ (MsgAt(Len(out)).cmd \in {"trigger", "read"}
                               \/ (MsgAt(Len(out)).cmd = "wait"
                                   /\ MsgAt(Len(out)).arg = "trigger"))) =>
                \A m \in ms : f.pos_cache[m] = f.cycler[f.stepNo][m]
          /\ pc = "returned" =>
                /\ Len(out) = Len(exp)
                /\ \A m \in ms : f.pos_cache[m] = f.cycler[Len(f.cycler)][m]
          \* the first step moves every motor
          /\ (f.stepNo >= 2 \/ pc = "returned"
              \/ (f.stepNo = 1 /\ pc = "yield"
                  /\ MsgAt(Len(out)).cmd \in {"trigger", "read"})) =>
                \A m \in ms : \E k \in CmdPos("set") :
                    /\ MsgAt(k).obj = m
                    /\ \A j \in CmdPos("checkpoint") : j = 1 \/ j > k

\* two motors, two steps, the second keeping motor 2 where it is: the second
\* step has moved motor 3 only and is reading
C33_Witness ==
    /\ frame.fn = "_nd_step_scan_core"
    /\ frame.motors = <<2, 3>>
    /\ Len(frame.cycler) = 2
    /\ frame.cycler[1][2] = frame.cycler[2][2]
    /\ frame.cycler[1][3] # frame.cycler[2][3]
    /\ frame.stepNo = 2
    /\ pc = "yield"
    /\ MsgAt(Len(out)).cmd = "read"
    /\ Cardinality(CmdPos("set")) = 3


\* the j-th quadruple of an argument list
Quad(args, j) == SubSeq(args, 4 * j - 3, 4 * j)

\* what an outer product scan is to get for the quadruples 1..n of args:
\* motor, start, finish, intervals + 1, and False after every motor but the
\* first
RECURSIVE OuterForwarded(_, _)
OuterForwarded(args, n) ==
    IF n = 0 THEN <<>>
    ELSE LET q == Quad(args, n)
         IN  OuterForwarded(args, n - 1)
               \o <<q[1], q[2], q[3], Num(q[4].v + 1)>>
               \o (IF n = 1 THEN <<>> ELSE <<PyFalse>>)

\* C34: _OuterProductScan.__call__ forwards, for every motor, the same
\* motor, start and finish with intervals + 1 points, and a False snake flag
\* after every motor except the first, for every number of motors.
C34_OuterForward ==
    frame.fn = "_OuterProductScan" =>
      /\ pc # "raised"
      /\ pc = "returned" =>
           frame.forwarded = OuterForwarded(frame.args, Len(frame.args) \div 4)

\* C35: every step-scan wrapper hands intervals + 1 to the scan class as
\* its number of points.
C35_PointsOnce ==
    (frame.fn \in StepScans /\ pc = "returned") =>
        frame.num = frame.intervals + 1


\* the response to the message yielded last has been supplied and the loop
\* has not yet resumed anything with it
ResponsePending ==
    /\ pc = "loop" /\ out # <<>>
    /\ Last(out).resp # Unanswered
    /\ result_stack = <<Last(out).resp>>
    /\ Len(gens[Last(out).src].got) = Last(out).idx

\* C36: the response the caller supplies for a yielded message goes, at the
\* next resumption, to the frame that produced the message and to no other
\* frame, and between the yield and that resumption plan_stack does not
\* change.
C36_ResponseToProducer ==
    /\ [][(pc = "yield" /\ pc' = "loop" /\ out'[Len(out)].resp # Unanswered) =>
             /\ plan_stack' = plan_stack
             /\ Last(plan_stack) = Last(out).src
             /\ result_stack' = <<out'[Len(out)].resp>>
             /\ \A g \in DOMAIN gens : gens'[g].got = gens[g].got]_vars
    /\ [][ResponsePending =>
             LET F == Last(out).src
             IN  /\ F = Last(plan_stack)
                 /\ gens'[F].got = Append(gens[F].got, Last(out).resp)
                 /\ \A g \in OnStack \ {F} : gens'[g].got = gens[g].got]_vars

\* a frame two levels above the root has been resumed with the response to
\* its message while the frames below it were left alone
C36_Witness ==
    /\ Len(plan_stack) >= 3
    /\ pc = "yield"
    /\ Len(out) >= 2
    /\ out[Len(out) - 1].src = Last(plan_stack)
    /\ out[Len(out) - 1].resp # Unanswered
    /\ Last(gens[Last(plan_stack)].got) = out[Len(out) - 1].resp
    /\ Faultless /\ ~userThrew

\* C37: a replacement p without a tail that returns without yielding, spliced
\* for the i-th message m of frame F: m does not reach the caller on behalf of
\* F, p was resumed once, and F is resumed after m with None; the other
\* messages of F reach the caller (or are spliced themselves), in F's order.
C37_EmptyReplacement ==
    \A p \in Repls :
        LET F == gens[p].owner
            i == gens[p].ownerPos
        IN  (TailOf(p) = {} /\ Returned(p) /\ gens[p].yielded = <<>>) =>
              /\ At(F, i) = {}
              /\ gens[p].got = <<None>>
              /\ ResumedAfter(F, i) => ResumedWith(F, i) = None
              /\ (illegalMsg = 0 /\ swallowed = <<>>) =>
                    \A n \in 1..Len(gens[F].yielded) :
                        n # i => At(F, n) # {} \/ SplicedFor(F, n) # {}
              /\ \A a, b \in Pos :
                    (out[a].src = F /\ out[b].src = F /\ a < b) =>
                        out[a].idx < out[b].idx

\* the root's first message reached the caller, its second was replaced by a
\* plan that returned at once, and its third reached the caller
C37_Witness ==
    \E p \in Repls :
        /\ TailOf(p) = {} /\ Returned(p) /\ gens[p].yielded = <<>>
        /\ gens[p].owner = Root /\ gens[p].ownerPos = 2
        /\ At(Root, 1) # {} /\ At(Root, 2) = {} /\ At(Root, 3) # {}
        /\ ResumedWith(Root, 2) = None

\* no fault has been raised or thrown so far
NoFaultSoFar ==
    /\ engErr = NoFault /\ swallowed = <<>> /\ ~userThrew
    /\ faultBy = 0 /\ illegalMsg = 0

\* C40: as long as no fault occurred, result_stack holds exactly one value
\* whenever the loop is about to run an iteration and is empty whenever the
\* engine is suspended at its yield, whatever the depth of plan_stack.
C40_OnePendingResponse ==
    NoFaultSoFar =>
        /\ pc = "loop" => Len(result_stack) = 1
        /\ pc = "yield" => result_stack = <<>>

\* a tail has just been pushed above two other frames, and primed
C40_Witness ==
    /\ NoFaultSoFar
    /\ pc = "loop"
    /\ Len(plan_stack) >= 3
    /\ Last(plan_stack) \in Tails
    /\ gens[Last(plan_stack)].st = "fresh"
    /\ result_stack = <<None>>


\* C38: when the plan wrapped by run_wrapper raises, or the caller throws a
\* fault in before the plan has returned, run_wrapper ends with that fault
\* and 'close_run' is never yielded: its generator is never started.
C38_RunLeftOpen ==
    (frame.fn = "run_wrapper" /\ out # <<>>
       /\ (gens[2].st = "raised" \/ (userThrew /\ ~Returned(2)))) =>
        /\ pc = "raised"
        /\ engErr = IF userThrew THEN "UserFault" ELSE "PlanFault"
        /\ CmdPos("close_run") = {}
        /\ CmdPos("open_run") = {1}
        /\ gens[3].st = "fresh"

\* the plan raised when it was resumed from its first message
C38_Witness ==
    /\ frame.fn = "run_wrapper" /\ pc = "raised"
    /\ ~userThrew /\ engErr = "PlanFault"
    /\ Len(out) = 2
    /\ MsgAt(1).cmd = "open_run" /\ out[2].src = 2
    /\ gens[2].st = "raised"


\* plan_mutator has returned with plan_stack empty, every generator it ran
\* has returned, and the caller was given a bounded number of messages
RanToEnd ==
    /\ pc = "returned" /\ plan_stack = <<>>
    /\ \A g \in Gens : gens[g].st \in {"done", "closed"}
    /\ Len(out) <= MaxCleanup + MaxGens * MaxYield

\* a generator raised, or msg_proc returned (None, tail)
Faulted == engErr # NoFault \/ faultBy # 0 \/ illegalMsg # 0

\* C39: with a rewrite that declines on the messages of replacements and
\* tails and a caller that answers every message, plan_mutator over a
\* finite root and finite replacements and tails eventually returns with
\* plan_stack empty, unless a generator or the rewrite faults.
C39_Terminates == <>(RanToEnd \/ Faulted)

\* the engine returned after two replacements, one with a tail
C39_Witness ==
    /\ RanToEnd /\ ~Faulted
    /\ frame.fn = "declines_below_root"
    /\ Cardinality(Repls) >= 2 /\ Tails # {}
    /\ Len(out) >= 3

====
